---- MODULE Spec2Model ----
(***************************************************************************)
(* TalentFlow: the optimistic mutation / reconciliation protocol of the    *)
(* jobs list and the candidates Kanban board (TanStack Query cache in      *)
(* front of the MSW + Dexie "Remote Store"), and the visibility and        *)
(* validation engine of the assessment preview.                            *)
(*                                                                         *)
(* JavaScript arrays are modelled as sequences; an index of the source     *)
(* (0-based) is kept 0-based in the parameters of the actions and shifted  *)
(* by one where a sequence is indexed.                                     *)
(***************************************************************************)
EXTENDS Integers, Sequences, FiniteSets, TLC

(***************************************************************************)
(* Bounds of the model.                                                    *)
(***************************************************************************)
\* number of jobs in the store (ids 1..NJobs, as db.jobs.toArray() lists them)
NJobs == 3
\* number of mutation attempts issued in one behaviour
MaxMuts == 2
\* number of changes of the jobs list's search / status / sort in one behaviour
MaxFilterChanges == 1
\* number of candidates in the store (ids 1..NCands)
NCands == 2
\* number of route changes and stage-filter changes on the candidates pages in
\* one behaviour
MaxNavigations == 1
\* number of sections a draft assessment grows to
MaxSections == 2
\* number of questions a section of the draft grows to
MaxDraftQuestions == 2
\* number of questions of the previewed assessment (ids 1..NQuestions)
NQuestions == 2
\* number of questions of a previewed assessment whose rules form a chain
NChain == 3
\* number of submit requests the preview sends in one behaviour
MaxSubmits == 1
\* number of write requests the handlers serve in one behaviour
MaxHandlers == 2
\* the values Date.now() takes in one behaviour
MaxClock == 2

(***************************************************************************)
(* Program constants.                                                      *)
(***************************************************************************)
\* JavaScript's undefined in a numeric field (an absent property)
Undefined == -1
\* pageSize: 10 in JobsPage's api.getJobs call
PageSize == 10
\* mutations have no retry option: TanStack Query's default for mutations
\* (the QueryClient only sets queries.retry)
MutationRetry == 0

JobIds == 1..NJobs
MutIds == 1..MaxMuts
Searches == {"", "eng"}
StatusFilters == {"", "active", "archived"}
Sorts == {"order", "title", "createdAt"}
\* the drags of the jobs list: <<index of the dragged card, index it is dropped on>>
Drags == {<<0, NJobs - 1>>, <<1, 0>>}

CandIds == 1..NCands
\* the stages of the Kanban board's columns, and JavaScript's undefined stage
Stages == {"applied", "screen", "tech", "final", "hired", "rejected"}
NoStage == "undefined"
\* the values of CandidatesPage's stage select
StageFilters == {""} \cup Stages
\* the values the explored behaviours select, and the columns their drags end over
SelectedStageFilters == {"", "applied", "tech"}
DropStages == {"screen", "tech"}
Pages == {"jobs", "candidates", "jobCandidates", "detail", "builder", "preview"}
QIds == 1..NQuestions

VARIABLES
    route,       \* the mounted page: [page, jobId, cand]
    jobs,        \* db.jobs: id -> [order, status]
    jobsCache,   \* query cache under ['jobs', {search, status, page, sort}]
    jobsFetch,   \* the fetch of each of these queries
    filter,      \* JobsPage's search / statusFilter / currentPage / sortBy
    filterChanges, \* number of changes of filter so far
    cands,       \* db.candidates: id -> [currentStage, jobId]
    timeline,    \* db.timelineEvents, oldest first
    candCache,   \* query cache under the ['candidates', ...] and timeline keys
    candFetch,   \* the fetch of each of these queries
    stageFilter, \* CandidatesPage's stageFilter
    navigations, \* number of route and stage-filter changes so far
    assessments, \* db.assessments: the assessment of the job being edited
    asmtCache,   \* query cache under ['assessment', jobId]
    asmtFetch,   \* the fetch of this query
    localAssessment, \* AssessmentBuilder's localAssessment
    assessment,  \* AssessmentPreview's assessment prop: id -> question
    answers,     \* AssessmentPreview's answers
    errors,      \* AssessmentPreview's errors ("": no entry)
    visibleSections, \* the memo visibleSections: the ids of the questions shown
    validated,   \* errors was computed from the present answers
    submitting,  \* AssessmentPreview's submitting
    submitMessage, \* AssessmentPreview's submitMessage
    submitReq,   \* the request of api.submitAssessment and its response
    submits,     \* number of submit requests sent so far
    responses,   \* db.assessmentResponses, oldest first
    dbAssessments, \* db.assessments as the handlers see it: the stored records
    dbJobs,      \* db.jobs as the handlers see it: [id, title, slug] of each job
    handlers,    \* the invocations of the write handlers, each at one of its awaits
    now,         \* Date.now()
    muts,        \* the mutation attempts (TanStack Query's mutation cache)
    nextMut      \* number of mutation attempts issued so far, plus one

jobVars == <<jobs, jobsCache, jobsFetch, filter, filterChanges>>
candVars == <<cands, timeline, candCache, candFetch, stageFilter, navigations>>
builderVars == <<assessments, asmtCache, asmtFetch, localAssessment>>
\* what the jobs list, the candidates pages and the builder leave alone
previewVars == <<assessment, answers, errors, visibleSections, validated>>
submitVars == <<submitting, submitMessage, submitReq, submits, responses>>
handlerVars == <<dbAssessments, dbJobs, handlers, now>>
notJobs == <<route, candVars, builderVars, previewVars, submitVars, handlerVars>>
notCands == <<jobVars, builderVars, previewVars, submitVars, handlerVars>>
notBuilder == <<route, jobVars, candVars, previewVars, submitVars, handlerVars>>
mutVars == <<muts, nextMut>>

(***************************************************************************)
(* Helpers on sequences.                                                   *)
(***************************************************************************)
Range(s) == {s[i] : i \in 1..Len(s)}

Perms(s) == {t \in [1..Len(s) -> Range(s)] : Range(t) = Range(s)}

Min(a, b) == IF a < b THEN a ELSE b

\* Array.prototype.findIndex on the id of the elements; -1 when absent
findIndex(s, id) ==
    IF \E i \in 1..Len(s) : s[i].id = id
    THEN (CHOOSE i \in 1..Len(s) : s[i].id = id) - 1
    ELSE -1

\* a stable sort of s by key[s[i].id], ascending (Array.prototype.sort with a
\* consistent comparator)
StableSort(s, key) ==
    CHOOSE t \in Perms(s) :
        \A a, b \in 1..Len(t) :
            a < b => \/ key[t[a].id] < key[t[b].id]
                     \/ /\ key[t[a].id] = key[t[b].id]
                        /\ findIndex(s, t[a].id) < findIndex(s, t[b].id)

\* arrayMove of @dnd-kit/sortable: remove the element at index from, insert it
\* at index to (0-based)
arrayMove(s, from, to) ==
    LET x == s[from + 1]
        rest == [i \in 1..(Len(s) - 1) |-> IF i < from + 1 THEN s[i] ELSE s[i + 1]]
    IN  [i \in 1..Len(s) |->
            IF i < to + 1 THEN rest[i]
            ELSE IF i = to + 1 THEN x
            ELSE rest[i - 1]]

\* JavaScript's < and <= on numbers, false when an operand is undefined (NaN)
JsLt(a, b) == a # Undefined /\ b # Undefined /\ a < b
JsLe(a, b) == a # Undefined /\ b # Undefined /\ a <= b

(***************************************************************************)
(* The Remote Store: jobs.                                                 *)
(***************************************************************************)
\* the seeded titles: which jobs the search text "eng" matches, and the rank
\* of each title under localeCompare
TitleMatches(j, search) == search = "" \/ j % 2 = 1
TitleKey == [j \in JobIds |-> (2 * j) % (NJobs + 2)]
\* createdAt of the seed, as a rank; the list sorts it newest first
CreatedKey == [j \in JobIds |-> 0 - ((3 * j) % (NJobs + 1))]

JobRow(store, j) == [id |-> j, order |-> store[j].order, status |-> store[j].status]

\* GET /api/jobs: the pages the handler can answer for the query parameters
ListJobs(store, key) ==
    LET all == [j \in JobIds |-> JobRow(store, j)]
        found == SelectSeq(all, LAMBDA r :
                     /\ TitleMatches(r.id, key.search)
                     /\ (key.status = "" \/ r.status = key.status))
        orderKey == [j \in JobIds |-> store[j].order]
        sorted ==
            IF key.sort = "title" THEN {StableSort(found, TitleKey)}
            ELSE IF key.sort = "createdAt" THEN {StableSort(found, CreatedKey)}
            ELSE IF \E i \in 1..Len(found) : found[i].order = Undefined
                 \* a.order - b.order is NaN: the comparator is inconsistent and
                 \* the order of the result is implementation-defined
                 THEN Perms(found)
                 ELSE {StableSort(found, orderKey)}
        startIndex == (key.page - 1) * PageSize
    IN  {SubSeq(s, startIndex + 1, Min(Len(s), startIndex + PageSize)) : s \in sorted}

\* the body api.reorderJob(id, fromOrder, toOrder) sends
reorderJobBody(fromOrder, toOrder) == [fromOrder |-> fromOrder, toOrder |-> toOrder]

\* what the handler reads from the body of the call api.reorderJob(id, newOrder):
\* the api object is defined twice, once sending {fromOrder, toOrder} with the
\* missing argument undefined, once sending {newOrder}
reorderJobBodies(newOrder) ==
    {reorderJobBody(newOrder, Undefined), reorderJobBody(Undefined, Undefined)}

\* PATCH /api/jobs/:id/reorder: the Dexie transaction
ReorderTransaction(store, id, fromOrder, toOrder) ==
    LET shifted == [j \in JobIds |->
            IF JsLt(fromOrder, toOrder)
            THEN IF JsLt(fromOrder, store[j].order) /\ JsLe(store[j].order, toOrder)
                 THEN [store[j] EXCEPT !.order = store[j].order - 1]
                 ELSE store[j]
            ELSE IF JsLt(toOrder, fromOrder)
            THEN IF JsLe(toOrder, store[j].order) /\ JsLt(store[j].order, fromOrder)
                 THEN [store[j] EXCEPT !.order = store[j].order + 1]
                 ELSE store[j]
            ELSE store[j]]
    IN  [shifted EXCEPT ![id].order = toOrder]

\* PATCH /api/jobs/:id: {...existingJob, ...body}
UpdateJobRow(store, id, status) == [store EXCEPT ![id].status = status]

(***************************************************************************)
(* The query cache (TanStack Query) for the jobs list.                     *)
(***************************************************************************)
JobKeys == [search : Searches, status : StatusFilters, page : {1}, sort : Sorts]

NoData == [loaded |-> FALSE, data |-> <<>>, invalidated |-> FALSE]
IdleFetch == [state |-> "idle", data |-> <<>>]
PendingFetch == [state |-> "pending", data |-> <<>>]

\* queryClient.setQueryData(key, data): a manual success
setQueryData(cache, key, data) ==
    [cache EXCEPT ![key] = [loaded |-> TRUE, data |-> data, invalidated |-> FALSE]]

\* useQuery observing the keys ks: fetch when there is no data or the data is
\* stale (staleTime is 5 minutes, so only an invalidated query is stale here)
MountQuery(fetch, cache, ks) ==
    [k \in DOMAIN fetch |->
        IF k \in ks /\ (~cache[k].loaded \/ cache[k].invalidated)
                    /\ fetch[k].state = "idle"
        THEN PendingFetch
        ELSE fetch[k]]

\* queryClient.invalidateQueries over the keys ks: mark the existing queries
\* stale ...
InvalidateCache(cache, ks) ==
    [k \in DOMAIN cache |->
        IF k \in ks /\ cache[k].loaded
        THEN [cache[k] EXCEPT !.invalidated = TRUE]
        ELSE cache[k]]

\* ... and refetch the active ones (cancelRefetch restarts a running fetch)
RefetchActive(fetch, ks, active) ==
    [k \in DOMAIN fetch |-> IF k \in ks /\ k \in active THEN PendingFetch ELSE fetch[k]]

\* queryClient.cancelQueries over the keys ks
cancelQueries(fetch, ks) ==
    [k \in DOMAIN fetch |-> IF k \in ks THEN IdleFetch ELSE fetch[k]]

(***************************************************************************)
(* Mutation attempts.                                                      *)
(***************************************************************************)
FreeMut ==
    [kind |-> "none", phase |-> "free", outcome |-> "none",
     id |-> 0, newOrder |-> 0, arg |-> "",
     patch |-> [stage |-> "undefined", currentStage |-> "undefined"],
     draft |-> <<>>,
     ctxLoaded |-> FALSE, ctxData |-> <<>>,
     key |-> "", solo |-> FALSE, requests |-> 0, failures |-> 0, notices |-> 0]

InFlight(m) == muts[m].phase \in {"sent", "responded"}

\* observer.mutate: the attempt takes the next slot; `solo` records whether any
\* other attempt is in flight while this one is
Issue(rec) ==
    /\ nextMut <= MaxMuts
    /\ muts' = [m \in MutIds |->
                  IF m = nextMut
                  THEN [rec EXCEPT !.solo = \A o \in MutIds : ~InFlight(o)]
                  ELSE IF InFlight(m) THEN [muts[m] EXCEPT !.solo = FALSE]
                  ELSE muts[m]]
    /\ nextMut' = nextMut + 1

\* the promise of mutationFn settles: the Remote Store answered attempt m, or
\* mutationFn threw
Respond(m, outcome) ==
    /\ muts' = [muts EXCEPT ![m].phase = "responded", ![m].outcome = outcome,
                            ![m].failures = IF outcome = "error" THEN @ + 1 ELSE @]
    /\ UNCHANGED nextMut

\* Mutation.execute: a failed mutationFn is run again while the failure count
\* is within the retry option
ShouldRetry(m) == muts[m].outcome = "error" /\ muts[m].failures <= MutationRetry

Retry(m) ==
    /\ muts' = [muts EXCEPT ![m].phase = "sent", ![m].outcome = "none",
                            ![m].requests =
                                IF muts[m].kind = "saveAssessment" THEN @ ELSE @ + 1]
    /\ UNCHANGED nextMut

\* the attempt's callbacks have run; toastError is the number of toast.error calls
Settle(m, toastError) ==
    /\ muts' = [muts EXCEPT ![m].phase = "done",
                            ![m].notices = muts[m].notices + toastError]
    /\ UNCHANGED nextMut

(***************************************************************************)
(* JobsPage.                                                               *)
(***************************************************************************)
\* reorderMutation.isPending, handed to every JobCard as isReordering (it
\* disables the status button)
isReordering ==
    \E m \in MutIds :
        /\ muts[m].kind = "reorder" /\ InFlight(m)
        \* the observer follows the latest mutate call
        /\ \A o \in MutIds : o > m => muts[o].kind # "reorder"

\* the list JobsPage renders: the data of the query under the current filter
JobsView == jobsCache[filter].data

\* the useState defaults of JobsPage
InitFilter == [search |-> "", status |-> "", page |-> 1, sort |-> "order"]

\* the jobs queries that have an observer
ActiveJobKeys == IF route.page = "jobs" THEN {filter} ELSE {}

ChangeFilter(newFilter) ==
    /\ route.page = "jobs"
    /\ newFilter # filter
    /\ filterChanges < MaxFilterChanges
    /\ filterChanges' = filterChanges + 1
    /\ filter' = newFilter
    /\ jobsFetch' = MountQuery(jobsFetch, jobsCache, {newFilter})
    /\ UNCHANGED <<jobs, jobsCache, mutVars, notJobs>>

setSearch(s) == ChangeFilter([filter EXCEPT !.search = s])
setStatusFilter(s) == ChangeFilter([filter EXCEPT !.status = s])
setSortBy(s) == ChangeFilter([filter EXCEPT !.sort = s])

\* the Clear Filters button: back to the initial search, status, sort and page
ClearFilters ==
    /\ route.page = "jobs"
    /\ filter # InitFilter
    /\ filter' = InitFilter
    /\ jobsFetch' = MountQuery(jobsFetch, jobsCache, {InitFilter})
    /\ UNCHANGED <<jobs, jobsCache, filterChanges, mutVars, notJobs>>

\* GET /api/jobs reads the store
FetchJobsServer(k) ==
    /\ jobsFetch[k].state = "pending"
    /\ \E page \in ListJobs(jobs, k) :
           jobsFetch' = [jobsFetch EXCEPT ![k] = [state |-> "ready", data |-> page]]
    /\ UNCHANGED <<jobs, jobsCache, filter, filterChanges, mutVars, notJobs>>

\* the response reaches the query
FetchJobsSettle(k) ==
    /\ jobsFetch[k].state = "ready"
    /\ jobsCache' = setQueryData(jobsCache, k, jobsFetch[k].data)
    /\ jobsFetch' = [jobsFetch EXCEPT ![k] = IdleFetch]
    /\ UNCHANGED <<jobs, filter, filterChanges, mutVars, notJobs>>

\* reorderMutation.onMutate's optimistic update of the cached page
OptimisticReorder(oldData, id, newOrder) ==
    LET oldIndex == findIndex(oldData, id)
    IN  IF oldIndex = -1 THEN oldData ELSE arrayMove(oldData, oldIndex, newOrder)

\* handleReorder (drag of the card at oldIndex onto the card at newIndex), then
\* reorderMutation.mutate: onMutate and the request of mutationFn. The drag
\* handle of the JobCard that takes onReorder is not disabled by isReordering.
handleReorder(oldIndex, newIndex) ==
    /\ route.page = "jobs"
    /\ jobsCache[filter].loaded
    /\ oldIndex \in 0..(Len(JobsView) - 1)
    /\ newIndex \in 0..(Len(JobsView) - 1)
    /\ oldIndex # newIndex
    /\ LET id == JobsView[oldIndex + 1].id
       IN  /\ jobsFetch' = cancelQueries(jobsFetch, JobKeys)
           /\ jobsCache' = setQueryData(jobsCache, filter,
                                        OptimisticReorder(JobsView, id, newIndex))
           /\ Issue([FreeMut EXCEPT
                  !.kind = "reorder", !.phase = "sent", !.id = id,
                  !.newOrder = newIndex,
                  !.ctxLoaded = jobsCache[filter].loaded, !.ctxData = JobsView,
                  !.key = filter, !.requests = 1])
    /\ UNCHANGED <<jobs, filter, filterChanges, notJobs>>

\* PATCH /api/jobs/:id/reorder
ServerReorderJob(m) ==
    /\ muts[m].kind = "reorder" /\ muts[m].phase = "sent"
    /\ \/ /\ Respond(m, "error")            \* shouldSimulateError()
          /\ UNCHANGED jobs
       \/ /\ Respond(m, "ok")
          /\ \E body \in reorderJobBodies(muts[m].newOrder) :
                 jobs' = ReorderTransaction(jobs, muts[m].id,
                                            body.fromOrder, body.toOrder)
    /\ UNCHANGED <<jobsCache, jobsFetch, filter, filterChanges, notJobs>>

\* reorderMutation.onError: the rollback writes under the filter of the
\* latest render
RollbackReorder(cache, m) ==
    IF muts[m].ctxLoaded THEN setQueryData(cache, filter, muts[m].ctxData) ELSE cache

\* the response reaches the mutation: retry, or onError and onSettled
ResolveReorder(m) ==
    /\ muts[m].kind = "reorder" /\ muts[m].phase = "responded"
    /\ IF ShouldRetry(m)
       THEN Retry(m) /\ UNCHANGED <<jobsCache, jobsFetch>>
       ELSE /\ jobsCache' = InvalidateCache(
                   IF muts[m].outcome = "error" THEN RollbackReorder(jobsCache, m)
                   ELSE jobsCache, {filter})
            /\ jobsFetch' = RefetchActive(jobsFetch, {filter}, ActiveJobKeys)
            /\ Settle(m, IF muts[m].outcome = "error" THEN 1 ELSE 0)
    /\ UNCHANGED <<jobs, filter, filterChanges, notJobs>>

\* handleStatusToggle on the card at index, then updateJobMutation.mutate
handleStatusToggle(index) ==
    /\ route.page = "jobs"
    /\ jobsCache[filter].loaded
    /\ ~isReordering
    /\ index \in 0..(Len(JobsView) - 1)
    /\ LET job == JobsView[index + 1]
       IN  Issue([FreeMut EXCEPT
                  !.kind = "updateJob", !.phase = "sent", !.id = job.id,
                  !.arg = IF job.status = "active" THEN "archived" ELSE "active",
                  !.key = filter, !.requests = 1])
    /\ UNCHANGED <<jobVars, notJobs>>

\* PATCH /api/jobs/:id
ServerUpdateJob(m) ==
    /\ muts[m].kind = "updateJob" /\ muts[m].phase = "sent"
    /\ \/ /\ Respond(m, "error")            \* shouldSimulateError()
          /\ UNCHANGED jobs
       \/ /\ Respond(m, "ok")
          /\ jobs' = UpdateJobRow(jobs, muts[m].id, muts[m].arg)
    /\ UNCHANGED <<jobsCache, jobsFetch, filter, filterChanges, notJobs>>

\* updateJobMutation.onSuccess / onError
ResolveUpdateJob(m) ==
    /\ muts[m].kind = "updateJob" /\ muts[m].phase = "responded"
    /\ IF ShouldRetry(m)
       THEN Retry(m) /\ UNCHANGED <<jobsCache, jobsFetch>>
       ELSE IF muts[m].outcome = "ok"
       THEN /\ jobsCache' = InvalidateCache(jobsCache, JobKeys)
            /\ jobsFetch' = RefetchActive(jobsFetch, JobKeys, ActiveJobKeys)
            /\ Settle(m, 0)
       ELSE /\ Settle(m, 1)
            /\ UNCHANGED <<jobsCache, jobsFetch>>
    /\ UNCHANGED <<jobs, filter, filterChanges, notJobs>>

(***************************************************************************)
(* The Remote Store: candidates and their timeline.                        *)
(***************************************************************************)
\* JavaScript's a || b on stage names
JsOr(a, b) == IF a \notin {NoStage, ""} THEN a ELSE b

CandRow(store, c) ==
    [id |-> c, currentStage |-> store[c].currentStage, stage |-> store[c].currentStage]

\* GET /api/candidates: only search and stage filter the rows; a jobId
\* parameter is not read
ListCandidates(store, stage) ==
    SelectSeq([c \in CandIds |-> CandRow(store, c)],
              LAMBDA r : stage = "" \/ r.currentStage = stage)

\* GET /api/candidates/:id/timeline: the candidate's events, newest first
ListTimeline(events, c) ==
    LET own == SelectSeq(events, LAMBDA e : e.candidateId = c)
    IN  [i \in 1..Len(own) |-> own[Len(own) + 1 - i]]

\* the body api.updateCandidate(id, candidate) sends from the Kanban board
MoveBody(newStage) == [stage |-> NoStage, currentStage |-> newStage]

\* PATCH /api/candidates/:id: db.candidates.update and the timeline event
UpdateCandidateRow(store, id, updates) ==
    [store EXCEPT ![id].currentStage = JsOr(updates.stage, updates.currentStage)]

\* a handler that records no timeline event
StageChangeEventsNone(events, id, updates) == events

StageChangeEvents(events, id, updates) ==
    LET newStage == JsOr(updates.stage, updates.currentStage)
    IN  IF newStage \notin {NoStage, ""}
        THEN Append(events, [candidateId |-> id, type |-> "stage_change",
                             newStage |-> newStage])
        ELSE events

\* POST /api/candidates/:id/notes
NoteEvents(events, id) ==
    Append(events, [candidateId |-> id, type |-> "note_added", newStage |-> NoStage])

(***************************************************************************)
(* The query cache for the candidates pages.                               *)
(***************************************************************************)
CandKey(q, stage, jobId, cand) == [q |-> q, stage |-> stage, jobId |-> jobId, cand |-> cand]
\* ['candidates']
AllKey == CandKey("candidates", "", 0, 0)
\* ['candidates', {stage}]
StageKey(f) == CandKey("candidates.stage", f, 0, 0)
\* ['candidates', {jobId}]
JobCandKey(j) == CandKey("candidates.jobId", "", j, 0)
\* ['candidate-timeline', candidateId]
TimelineKey(c) == CandKey("candidate-timeline", "", 0, c)

\* the jobs the seeded candidates applied to
CandJob == [c \in CandIds |-> ((c - 1) % NJobs) + 1]
\* the job whose candidates page is visited
RouteJobIds == {CandJob[1]}

\* the keys a filter ['candidates'] matches by prefix
CollectionKeys ==
    {AllKey} \cup {StageKey(f) : f \in StageFilters} \cup {JobCandKey(j) : j \in RouteJobIds}
TimelineKeys == {TimelineKey(c) : c \in CandIds}
CandKeys == CollectionKeys \cup TimelineKeys

CandRoutes ==
    {[page |-> "candidates", jobId |-> 0, cand |-> 0]}
    \cup {[page |-> "jobCandidates", jobId |-> j, cand |-> 0] : j \in RouteJobIds}
    \cup {[page |-> "detail", jobId |-> 0, cand |-> c] : c \in CandIds}

\* the queries the page at route r observes
PageKeys(r, f) ==
    IF r.page = "candidates" THEN {StageKey(f)}
    ELSE IF r.page = "jobCandidates" THEN {JobCandKey(r.jobId)}
    ELSE IF r.page = "detail" THEN {AllKey, TimelineKey(r.cand)}
    ELSE {}

ActiveCandKeys == PageKeys(route, stageFilter)

(***************************************************************************)
(* CandidatesPage, JobCandidatesPage, CandidateDetailPage.                 *)
(***************************************************************************)
\* the key of the view the board of the mounted page is rendered from
BoardKey == IF route.page = "candidates" THEN StageKey(stageFilter)
            ELSE JobCandKey(route.jobId)

\* the candidates prop of CandidatesKanban; JobCandidatesPage maps each row to
\* {...c, currentStage: c.stage}
BoardRows ==
    LET data == candCache[BoardKey].data
    IN  IF route.page = "jobCandidates"
        THEN [i \in 1..Len(data) |-> [data[i] EXCEPT !.currentStage = data[i].stage]]
        ELSE data

\* the board is rendered: not loading and, on CandidatesPage, some row to show
BoardShown ==
    /\ route.page \in {"candidates", "jobCandidates"}
    /\ candCache[BoardKey].loaded
    /\ (route.page = "candidates" => Len(candCache[BoardKey].data) > 0)

\* sortable.containerId of the card of candidate c: the column it is rendered
\* in (undefined when no column renders it)
ContainerOf(c) ==
    IF \E i \in 1..Len(BoardRows) : BoardRows[i].id = c /\ BoardRows[i].currentStage \in Stages
    THEN BoardRows[findIndex(BoardRows, c) + 1].currentStage
    ELSE NoStage

\* a route change: the new page's queries mount
Navigate(r) ==
    /\ route \in CandRoutes
    /\ r # route
    /\ navigations < MaxNavigations
    /\ navigations' = navigations + 1
    /\ route' = r
    /\ stageFilter' = ""
    /\ candFetch' = MountQuery(candFetch, candCache, PageKeys(r, ""))
    /\ UNCHANGED <<cands, timeline, candCache, mutVars, notCands>>

\* the stage select of CandidatesPage
setStageFilter(f) ==
    /\ route.page = "candidates"
    /\ f # stageFilter
    /\ navigations < MaxNavigations
    /\ navigations' = navigations + 1
    /\ stageFilter' = f
    /\ candFetch' = MountQuery(candFetch, candCache, {StageKey(f)})
    /\ UNCHANGED <<route, cands, timeline, candCache, mutVars, notCands>>

\* GET /api/candidates and GET /api/candidates/:id/timeline read the store
FetchCandidatesServer(k) ==
    /\ candFetch[k].state = "pending"
    /\ candFetch' = [candFetch EXCEPT ![k] =
           [state |-> "ready",
            data |-> IF k \in TimelineKeys THEN ListTimeline(timeline, k.cand)
                     ELSE ListCandidates(cands, k.stage)]]
    /\ UNCHANGED <<route, cands, timeline, candCache, stageFilter, navigations,
                   mutVars, notCands>>

\* the response reaches the query
FetchCandidatesSettle(k) ==
    /\ candFetch[k].state = "ready"
    /\ candCache' = setQueryData(candCache, k, candFetch[k].data)
    /\ candFetch' = [candFetch EXCEPT ![k] = IdleFetch]
    /\ UNCHANGED <<route, cands, timeline, stageFilter, navigations,
                   mutVars, notCands>>

(***************************************************************************)
(* CandidatesKanban.                                                       *)
(***************************************************************************)
\* what a drag can end over: nothing, a column, or a card
Overs ==
    {[type |-> "none", stage |-> "", cand |-> 0]}
    \cup {[type |-> "container", stage |-> st, cand |-> 0] : st \in DropStages}
    \cup {[type |-> "item", stage |-> "", cand |-> c] : c \in CandIds}

\* updateCandidateMutation.onMutate's optimistic update of ['candidates']:
\* {...c, ...candidate} on the row of id
OptimisticMove(old, id, candidate) ==
    [i \in 1..Len(old) |->
        IF old[i].id = id
        THEN [old[i] EXCEPT !.currentStage = candidate.currentStage]
        ELSE old[i]]

\* updateCandidateMutation.mutate: onMutate and the request of mutationFn
updateCandidateMutation(id, candidate) ==
    /\ candFetch' = cancelQueries(candFetch, CollectionKeys)
    /\ candCache' =
           IF candCache[AllKey].loaded
           THEN setQueryData(candCache, AllKey,
                             OptimisticMove(candCache[AllKey].data, id, candidate))
           ELSE candCache
    /\ Issue([FreeMut EXCEPT
           !.kind = "moveCandidate", !.phase = "sent", !.id = id,
           !.arg = candidate.currentStage, !.patch = candidate,
           !.ctxLoaded = candCache[AllKey].loaded,
           !.ctxData = candCache[AllKey].data,
           !.key = BoardKey, !.requests = 1])

\* a drag end that does not compare the two containers
handleDragEndAnywhere(active, over) ==
    /\ BoardShown
    /\ ContainerOf(active) # NoStage
    /\ (over.type = "item" => ContainerOf(over.cand) # NoStage)
    /\ LET overContainerId ==
               IF over.type = "container" THEN over.stage
               ELSE IF over.type = "item" THEN ContainerOf(over.cand)
               ELSE NoStage
       IN  IF over.type = "none" \/ overContainerId = NoStage
           THEN UNCHANGED <<candCache, candFetch, mutVars>>
           ELSE updateCandidateMutation(active, MoveBody(overContainerId))
    /\ UNCHANGED <<route, cands, timeline, stageFilter, navigations, notCands>>

\* a drag end that takes over.id for the destination: the id of a card is
\* no stage
handleDragEndOverId(active, over) ==
    /\ BoardShown
    /\ ContainerOf(active) # NoStage
    /\ (over.type = "item" => ContainerOf(over.cand) # NoStage)
    /\ LET activeContainerId == ContainerOf(active)
           overContainerId == IF over.type = "container" THEN over.stage ELSE NoStage
       IN  IF over.type = "none" \/ activeContainerId = overContainerId
           THEN UNCHANGED <<candCache, candFetch, mutVars>>
           ELSE updateCandidateMutation(active, MoveBody(overContainerId))
    /\ UNCHANGED <<route, cands, timeline, stageFilter, navigations, notCands>>

\* handleDragEnd for the drag of the card of candidate active, ended over `over`
handleDragEnd(active, over) ==
    /\ BoardShown
    /\ ContainerOf(active) # NoStage
    /\ (over.type = "item" => ContainerOf(over.cand) # NoStage)
    /\ LET activeContainerId == ContainerOf(active)
           overContainerId ==
               IF over.type = "container" THEN over.stage
               ELSE IF over.type = "item" THEN ContainerOf(over.cand)
               ELSE NoStage
       IN  IF \/ over.type = "none"
              \/ activeContainerId = NoStage
              \/ overContainerId = NoStage
              \/ activeContainerId = overContainerId
           THEN UNCHANGED <<candCache, candFetch, mutVars>>
           ELSE updateCandidateMutation(active, MoveBody(overContainerId))
    /\ UNCHANGED <<route, cands, timeline, stageFilter, navigations, notCands>>

\* the attempts that send PATCH /api/candidates/:id: the board's and the
\* candidate page's updateCandidateMutation
CandidateUpdates == {"moveCandidate", "updateCandidate"}

\* PATCH /api/candidates/:id
ServerUpdateCandidate(m) ==
    /\ muts[m].kind \in CandidateUpdates /\ muts[m].phase = "sent"
    /\ \/ /\ Respond(m, "error")            \* Math.random() < 0.1
          /\ UNCHANGED <<cands, timeline>>
       \/ /\ Respond(m, "ok")
          /\ cands' = UpdateCandidateRow(cands, muts[m].id, muts[m].patch)
          /\ timeline' = StageChangeEvents(timeline, muts[m].id, muts[m].patch)
    /\ UNCHANGED <<route, candCache, candFetch, stageFilter, navigations,
                   notCands>>

\* updateCandidateMutation.onError: restore the snapshot of ['candidates']
RollbackMove(cache, m) ==
    IF muts[m].ctxLoaded THEN setQueryData(cache, AllKey, muts[m].ctxData) ELSE cache

\* the response reaches the mutation: retry, or onError and onSettled
ResolveUpdateCandidate(m) ==
    /\ muts[m].kind = "moveCandidate" /\ muts[m].phase = "responded"
    /\ IF ShouldRetry(m)
       THEN Retry(m) /\ UNCHANGED <<candCache, candFetch>>
       ELSE /\ candCache' = InvalidateCache(
                   IF muts[m].outcome = "error" THEN RollbackMove(candCache, m)
                   ELSE candCache, CollectionKeys)
            /\ candFetch' = RefetchActive(candFetch, CollectionKeys, ActiveCandKeys)
            /\ Settle(m, IF muts[m].outcome = "error" THEN 1 ELSE 0)
    /\ UNCHANGED <<route, cands, timeline, stageFilter, navigations,
                   notCands>>

(***************************************************************************)
(* AddNoteForm of the candidate's page.                                    *)
(***************************************************************************)
\* handleSubmit with a non-blank note, then addNoteMutation.mutate
addNoteMutation ==
    /\ route.page = "detail"
    /\ candCache[AllKey].loaded /\ candCache[TimelineKey(route.cand)].loaded
    /\ findIndex(candCache[AllKey].data, route.cand) # -1
    /\ Issue([FreeMut EXCEPT
           !.kind = "addNote", !.phase = "sent", !.id = route.cand,
           !.key = TimelineKey(route.cand), !.requests = 1])
    /\ UNCHANGED <<route, candVars, notCands>>

\* POST /api/candidates/:id/notes
ServerAddNote(m) ==
    /\ muts[m].kind = "addNote" /\ muts[m].phase = "sent"
    /\ \/ /\ Respond(m, "error")            \* shouldSimulateError()
          /\ UNCHANGED timeline
       \/ /\ Respond(m, "ok")
          /\ timeline' = NoteEvents(timeline, muts[m].id)
    /\ UNCHANGED <<route, cands, candCache, candFetch, stageFilter, navigations,
                   notCands>>

\* addNoteMutation.onSuccess / onError
ResolveAddNote(m) ==
    /\ muts[m].kind = "addNote" /\ muts[m].phase = "responded"
    /\ IF ShouldRetry(m)
       THEN Retry(m) /\ UNCHANGED <<candCache, candFetch>>
       ELSE IF muts[m].outcome = "ok"
       THEN /\ candCache' = InvalidateCache(candCache, {TimelineKey(muts[m].id)})
            /\ candFetch' = RefetchActive(candFetch, {TimelineKey(muts[m].id)},
                                          ActiveCandKeys)
            /\ Settle(m, 0)
       ELSE /\ Settle(m, 1)
            /\ UNCHANGED <<candCache, candFetch>>
    /\ UNCHANGED <<route, cands, timeline, stageFilter, navigations,
                   notCands>>

(***************************************************************************)
(* CandidateDetailPage: the note and the stage buttons.                    *)
(***************************************************************************)
\* updateCandidateMutation.isPending of the candidate's page
isUpdating == \E m \in MutIds : muts[m].kind = "updateCandidate" /\ InFlight(m)

\* the page shows the candidate: ['candidates'] is loaded and has its row
DetailShown ==
    /\ route.page = "detail"
    /\ candCache[AllKey].loaded
    /\ findIndex(candCache[AllKey].data, route.cand) # -1

\* the body {notes} of handleAddNote: neither stage nor currentStage
NoteBody == [stage |-> NoStage, currentStage |-> NoStage]

\* updateCandidateMutation.mutate of the candidate's page: no onMutate, the
\* request of mutationFn
updateCandidate(candidate) ==
    Issue([FreeMut EXCEPT
        !.kind = "updateCandidate", !.phase = "sent", !.id = route.cand,
        !.arg = candidate.currentStage, !.patch = candidate,
        !.key = AllKey, !.requests = 1])

\* handleAddNote with a non-blank note
handleAddNote ==
    /\ DetailShown /\ ~isUpdating
    /\ updateCandidate(NoteBody)
    /\ UNCHANGED <<route, candVars, notCands>>

\* handleStageChange(newStage): the button of any of the six stages
handleStageChange(newStage) ==
    /\ DetailShown /\ ~isUpdating
    /\ updateCandidate([stage |-> NoStage, currentStage |-> newStage])
    /\ UNCHANGED <<route, candVars, notCands>>

\* updateCandidateMutation.onSuccess / onError of the candidate's page
ResolveUpdateCandidateDetail(m) ==
    /\ muts[m].kind = "updateCandidate" /\ muts[m].phase = "responded"
    /\ IF ShouldRetry(m)
       THEN Retry(m) /\ UNCHANGED <<candCache, candFetch>>
       ELSE IF muts[m].outcome = "ok"
       THEN LET ks == CollectionKeys \cup
                        (IF route.page = "detail" THEN {TimelineKey(route.cand)} ELSE {})
            IN  /\ candCache' = InvalidateCache(candCache, ks)
                /\ candFetch' = RefetchActive(candFetch, ks, ActiveCandKeys)
                /\ Settle(m, 0)
       ELSE /\ Settle(m, 1)
            /\ UNCHANGED <<candCache, candFetch>>
    /\ UNCHANGED <<route, cands, timeline, stageFilter, navigations, notCands>>

(***************************************************************************)
(* AssessmentBuilder: the draft and its save.                              *)
(***************************************************************************)
\* the job whose assessment is edited
BuilderJob == 1
BuilderRoute == [page |-> "builder", jobId |-> BuilderJob, cand |-> 0]
AsmtKeys == {BuilderJob}

\* saveMutation.isPending
isSaving == \E m \in MutIds : muts[m].kind = "saveAssessment" /\ InFlight(m)

\* the builder is rendered: the query is not loading and the draft is set
BuilderShown ==
    /\ route.page = "builder"
    /\ asmtCache[BuilderJob].loaded
    /\ localAssessment.set

ActiveAsmtKeys == IF route.page = "builder" THEN AsmtKeys ELSE {}

\* GET /api/assessments/:jobId reads the store
FetchAssessmentServer(k) ==
    /\ asmtFetch[k].state = "pending"
    /\ asmtFetch' = [asmtFetch EXCEPT ![k] = [state |-> "ready", data |-> <<assessments>>]]
    /\ UNCHANGED <<assessments, asmtCache, localAssessment, mutVars, notBuilder>>

\* the response reaches the query; when the data changed, the effect on
\* [assessment, jobId] copies it into localAssessment
FetchAssessmentSettle(k) ==
    /\ asmtFetch[k].state = "ready"
    /\ asmtCache' = setQueryData(asmtCache, k, asmtFetch[k].data)
    /\ asmtFetch' = [asmtFetch EXCEPT ![k] = IdleFetch]
    /\ localAssessment' =
           IF route.page = "builder"
              /\ (~asmtCache[k].loaded \/ asmtCache[k].data # asmtFetch[k].data)
           THEN [set |-> TRUE, sections |-> asmtFetch[k].data[1].sections]
           ELSE localAssessment
    /\ UNCHANGED <<assessments, mutVars, notBuilder>>

\* the draft's section of this id is on the page
HasSection(sectionId) ==
    /\ BuilderShown
    /\ findIndex(localAssessment.sections, sectionId) >= 0

\* the smallest id no element of s has: `section-${Date.now()}`,
\* `question-${Date.now()}` of a later millisecond
FreshId(s) ==
    CHOOSE n \in 1..(Len(s) + 1) :
        /\ \A i \in 1..Len(s) : s[i].id # n
        /\ \A o \in 1..(n - 1) : \E i \in 1..Len(s) : s[i].id = o

\* addSection: a section with a fresh id and order = the number of sections
addSection ==
    /\ BuilderShown
    /\ Len(localAssessment.sections) < MaxSections
    /\ LET fresh == FreshId(localAssessment.sections)
       IN  localAssessment' = [localAssessment EXCEPT !.sections =
               Append(@, [id |-> fresh, order |-> Len(localAssessment.sections),
                          questions |-> <<>>])]
    /\ UNCHANGED <<assessments, asmtCache, asmtFetch, mutVars, notBuilder>>

\* updateSection: the section of this id is replaced
updateSection(sections, updatedSection) ==
    [i \in 1..Len(sections) |->
        IF sections[i].id = updatedSection.id THEN updatedSection ELSE sections[i]]

\* deleteSection: the section is filtered out, the others keep their order
deleteSection(sectionId) ==
    /\ HasSection(sectionId)
    /\ localAssessment' = [localAssessment EXCEPT !.sections =
           SelectSeq(@, LAMBDA s : s.id # sectionId)]
    /\ UNCHANGED <<assessments, asmtCache, asmtFetch, mutVars, notBuilder>>

\* addQuestion: a question with a fresh id and order = the number of
\* questions of the section
addQuestion(sectionId) ==
    /\ HasSection(sectionId)
    /\ LET section == localAssessment.sections[findIndex(localAssessment.sections,
                                                         sectionId) + 1]
           newQuestion == [id |-> FreshId(section.questions),
                           order |-> Len(section.questions)]
       IN  /\ Len(section.questions) < MaxDraftQuestions
           /\ localAssessment' = [localAssessment EXCEPT !.sections =
                  updateSection(@, [section EXCEPT
                                       !.questions = Append(@, newQuestion)])]
    /\ UNCHANGED <<assessments, asmtCache, asmtFetch, mutVars, notBuilder>>

\* QuestionBuilder's onDelete: the question is filtered out of its section,
\* the others keep their order
onDelete(sectionId, questionId) ==
    /\ HasSection(sectionId)
    /\ LET section == localAssessment.sections[findIndex(localAssessment.sections,
                                                         sectionId) + 1]
       IN  /\ findIndex(section.questions, questionId) >= 0
           /\ localAssessment' = [localAssessment EXCEPT !.sections =
                  updateSection(@, [section EXCEPT !.questions =
                      SelectSeq(@, LAMBDA q : q.id # questionId)])]
    /\ UNCHANGED <<assessments, asmtCache, asmtFetch, mutVars, notBuilder>>

\* the builder's handleDragEnd: the section dropped on another one moves to
\* its place and every section takes its index as order
handleSectionDragEnd(activeId, overId) ==
    /\ HasSection(activeId) /\ HasSection(overId)
    /\ activeId # overId
    /\ LET oldIndex == findIndex(localAssessment.sections, activeId)
           newIndex == findIndex(localAssessment.sections, overId)
           reorderedSections == arrayMove(localAssessment.sections, oldIndex, newIndex)
       IN  localAssessment' = [localAssessment EXCEPT !.sections =
               [i \in 1..Len(reorderedSections) |->
                   [reorderedSections[i] EXCEPT !.order = i - 1]]]
    /\ UNCHANGED <<assessments, asmtCache, asmtFetch, mutVars, notBuilder>>

\* handleSave, then saveMutation.mutate with the whole draft
handleSave ==
    /\ BuilderShown
    /\ ~isSaving
    /\ Issue([FreeMut EXCEPT
           !.kind = "saveAssessment", !.phase = "sent", !.id = BuilderJob,
           !.draft = localAssessment.sections])
    /\ UNCHANGED <<builderVars, notBuilder>>

\* saveMutation's mutationFn calls api.saveAssessment, which neither definition
\* of the api object has (they have updateAssessment): the call throws a
\* TypeError and no request is sent
saveAssessmentFn(m) ==
    /\ muts[m].kind = "saveAssessment" /\ muts[m].phase = "sent"
    /\ Respond(m, "error")
    /\ UNCHANGED <<builderVars, notBuilder>>

\* api.saveAssessment as the Remote Store's "save assessment" operation: the
\* whole draft creates or replaces the job's assessment, or the request fails
saveAssessment(m) ==
    /\ muts[m].kind = "saveAssessment" /\ muts[m].phase = "sent"
    /\ \/ /\ Respond(m, "error")
          /\ UNCHANGED assessments
       \/ /\ Respond(m, "ok")
          /\ assessments' = [present |-> TRUE, sections |-> muts[m].draft,
                             updatedAt |-> assessments.updatedAt + 1]
    /\ UNCHANGED <<asmtCache, asmtFetch, localAssessment, notBuilder>>

\* saveMutation.onSuccess / onError
ResolveSaveAssessment(m) ==
    /\ muts[m].kind = "saveAssessment" /\ muts[m].phase = "responded"
    /\ IF ShouldRetry(m)
       THEN Retry(m) /\ UNCHANGED <<asmtCache, asmtFetch>>
       ELSE IF muts[m].outcome = "ok"
       THEN /\ asmtCache' = InvalidateCache(asmtCache, AsmtKeys)
            /\ asmtFetch' = RefetchActive(asmtFetch, AsmtKeys, ActiveAsmtKeys)
            /\ Settle(m, 0)
       ELSE /\ Settle(m, 1)
            /\ UNCHANGED <<asmtCache, asmtFetch>>
    /\ UNCHANGED <<assessments, localAssessment, notBuilder>>

(***************************************************************************)
(* The write handlers of the Remote Store, one step per await.             *)
(***************************************************************************)
HandlerIds == 1..MaxHandlers

\* the id of a seeded record ('assessment-1'); a created record takes its id
\* from Date.now()
SeededId == 0

FreeHandler ==
    [kind |-> "none", pc |-> "free", body |-> <<>>, existing |-> Undefined, status |-> 0,
     target |-> 0, slugCandidate |-> <<>>, suffix |-> 2,
     snapshot |-> [id |-> 0, title |-> <<>>, slug |-> [defined |-> FALSE, str |-> <<>>],
                   order |-> Undefined],
     keepSlug |-> FALSE, maxOrder |-> Undefined, all |-> <<>>, cursor |-> 0,
     written |-> 0]

\* the seeded assessment of the job
SeededRecord ==
    [id |-> SeededId, jobId |-> BuilderJob, title |-> "Frontend Developer Assessment",
     description |-> "D", sections |-> <<1>>]

\* the drafts a save sends: the title and the description inputs can be
\* emptied, the sections removed
Drafts == [title : {"", "T"}, description : {"", "D"}, sections : {<<>>, <<1>>}]

\* Date.now() moves on
Tick ==
    /\ now < MaxClock
    /\ now' = now + 1
    /\ UNCHANGED <<dbAssessments, dbJobs, handlers>>
    /\ UNCHANGED <<route, jobVars, candVars, builderVars, previewVars, submitVars, mutVars>>

\* db.assessments.where('jobId').equals(jobId).first(): the id of the first
\* record of the job in key order, Undefined when there is none
firstByJob(table, jobId) ==
    LET ids == {table[i].id : i \in {j \in 1..Len(table) : table[j].jobId = jobId}}
    IN  IF ids = {} THEN Undefined ELSE CHOOSE id \in ids : \A o \in ids : id <= o

\* {...existingAssessment, ...body}, written by db.assessments.update(id, _)
updatedAssessment(table, id, body) ==
    [i \in 1..Len(table) |->
        IF table[i].id = id
        THEN [table[i] EXCEPT !.title = body.title, !.description = body.description,
                              !.sections = body.sections]
        ELSE table[i]]

\* newAssessment: body.title || 'Assessment', body.description || '',
\* body.sections || []
newAssessment(id, jobId, body) ==
    [id |-> id, jobId |-> jobId,
     title |-> IF body.title = "" THEN "Assessment" ELSE body.title,
     description |-> body.description, sections |-> body.sections]

\* the request of a save reaches the handler, which awaits its delay
ArrivePutAssessment(h, body) ==
    /\ handlers[h].pc = "free"
    /\ handlers' = [handlers EXCEPT ![h] =
           [FreeHandler EXCEPT !.kind = "putAssessment", !.pc = "delay", !.body = body]]
    /\ UNCHANGED <<dbAssessments, dbJobs, now>>
    /\ UNCHANGED <<route, jobVars, candVars, builderVars, previewVars, submitVars, mutVars>>

\* PUT /api/assessments/:jobId, from one await to the next: the delay, then
\* the lookup of the job's assessment, then the update or the add
PutAssessment(h) ==
    /\ handlers[h].kind = "putAssessment"
    /\ \/ /\ handlers[h].pc = "delay"             \* shouldSimulateError()
          /\ handlers' = [handlers EXCEPT ![h].pc = "done", ![h].status = 500]
          /\ UNCHANGED dbAssessments
       \/ /\ handlers[h].pc = "delay"
          /\ handlers' = [handlers EXCEPT ![h].pc = "found",
                 ![h].existing = firstByJob(dbAssessments, BuilderJob)]
          /\ UNCHANGED dbAssessments
       \/ /\ handlers[h].pc = "found"
          /\ IF handlers[h].existing # Undefined
             THEN /\ dbAssessments' = updatedAssessment(dbAssessments,
                                          handlers[h].existing, handlers[h].body)
                  /\ handlers' = [handlers EXCEPT ![h].pc = "done", ![h].status = 200,
                                                  ![h].written = @ + 1]
             ELSE IF \E i \in 1..Len(dbAssessments) : dbAssessments[i].id = now
             THEN /\ UNCHANGED dbAssessments       \* add: the key exists
                  /\ handlers' = [handlers EXCEPT ![h].pc = "done", ![h].status = 500]
             ELSE /\ dbAssessments' = Append(dbAssessments,
                          newAssessment(now, BuilderJob, handlers[h].body))
                  /\ handlers' = [handlers EXCEPT ![h].pc = "done", ![h].status = 201,
                                                  ![h].written = @ + 1]
    /\ UNCHANGED <<dbJobs, now>>
    /\ UNCHANGED <<route, jobVars, candVars, builderVars, previewVars, submitVars, mutVars>>

(***************************************************************************)
(* POST /api/jobs and PATCH /api/jobs/:id: the slug of a job.              *)
(***************************************************************************)
\* the characters of the titles: letters, a digit, a blank, a dash and a
\* punctuation mark
Digits == <<"1", "2", "3", "4", "5", "6", "7", "8", "9">>
LowerCase == {"a", "j"}
toLowerCase(s) ==
    [i \in 1..Len(s) |-> IF s[i] = "A" THEN "a" ELSE IF s[i] = "J" THEN "j" ELSE s[i]]

RECURSIVE DropWhile(_, _)
DropWhile(s, c) == IF s # <<>> /\ Head(s) = c THEN DropWhile(Tail(s), c) ELSE s

Reverse(s) == [i \in 1..Len(s) |-> s[Len(s) + 1 - i]]

\* String.prototype.trim
trim(s) == Reverse(DropWhile(Reverse(DropWhile(s, " ")), " "))

\* replace(/c+/g, r)
RECURSIVE ReplaceRuns(_, _, _)
ReplaceRuns(s, c, r) ==
    IF s = <<>> THEN <<>>
    ELSE IF Head(s) = c THEN <<r>> \o ReplaceRuns(DropWhile(s, c), c, r)
    ELSE <<Head(s)>> \o ReplaceRuns(Tail(s), c, r)

\* slugify: lower case, trim, drop what is not a letter, a digit, a blank or
\* a dash, turn each run of blanks into a dash, then each run of dashes
slugify(title) ==
    LET kept == SelectSeq(trim(toLowerCase(title)),
                          LAMBDA c : c \in LowerCase \cup Range(Digits) \cup {" ", "-"})
    IN  ReplaceRuns(ReplaceRuns(kept, " ", "-"), "-", "-")

\* a job without a slug field, as the seed writes it
NoSlug == [defined |-> FALSE, str |-> <<>>]
Slug(s) == [defined |-> TRUE, str |-> s]
SeededJob(j) == [id |-> j, title |-> <<"J", Digits[j]>>, slug |-> NoSlug, order |-> j - 1]

\* the indexes of the jobs store
JobsIndexes == {"id", "title", "status", "order", "createdAt", "updatedAt"}

\* db.jobs.where('slug').equals(slug).first(): the query of a key path that
\* is not indexed is rejected with a SchemaError
whereSlugFirst(table, slug) ==
    IF "slug" \notin JobsIndexes THEN [error |-> TRUE, id |-> Undefined]
    ELSE LET ids == {table[i].id : i \in {k \in DOMAIN table : table[k].slug = Slug(slug)}}
         IN  [error |-> FALSE,
              id |-> IF ids = {} THEN Undefined ELSE CHOOSE id \in ids : \A o \in ids : id <= o]

\* `${baseSlug}-${suffix}`
SuffixedSlug(baseSlug, suffix) == baseSlug \o <<"-", Digits[suffix]>>

\* the titles and the bodies the requests carry
Titles == {<<"A">>, <<"a">>, <<" ">>, <<"A", " ", "!">>, <<"J", "1">>}
PatchBodies == [hasTitle : {TRUE}, title : Titles] \cup {[hasTitle |-> FALSE, title |-> <<>>]}

\* the id `job-${Date.now()}` of a created job: none of the seeded ids
CreatedJobId(t) == NJobs + t

\* a jobs store without transactions: no request ever waits
JobsLockedNever == FALSE

\* db.transaction('rw', db.jobs, ...) of a reorder is running: every other
\* request on the jobs store waits until it has committed
JobsLocked ==
    \E g \in HandlerIds : handlers[g].kind = "reorderJob" /\ handlers[g].pc = "transaction"

\* db.jobs.orderBy('order').last(): the largest order of the index (a job
\* without an order is not in it), Undefined when the index is empty
lastOrder(table) ==
    LET orders == {table[i].order : i \in DOMAIN table} \ {Undefined}
    IN  IF orders = {} THEN Undefined ELSE CHOOSE o \in orders : \A p \in orders : p <= o

\* the request of a create reaches the handler, which awaits its delay
ArrivePostJob(h, title) ==
    /\ handlers[h].pc = "free"
    /\ handlers' = [handlers EXCEPT ![h] =
           [FreeHandler EXCEPT !.kind = "postJob", !.pc = "delay",
                               !.body = [hasTitle |-> TRUE, title |-> title]]]
    /\ UNCHANGED <<dbAssessments, dbJobs, now>>
    /\ UNCHANGED <<route, jobVars, candVars, builderVars, previewVars, submitVars, mutVars>>

\* one turn of the loop that looks for a free slug: the candidate is taken
\* (by another job than `own`), is free, or the query is rejected
SlugLoop(h, own, next) ==
    LET conflict == whereSlugFirst(dbJobs, handlers[h].slugCandidate)
        baseSlug == slugify(handlers[h].body.title)
    IN  IF conflict.error
        THEN handlers' = [handlers EXCEPT ![h].pc = "done", ![h].status = 500]
        ELSE IF conflict.id = Undefined \/ conflict.id = own
        THEN handlers' = [handlers EXCEPT ![h].pc = next]
        ELSE handlers' = [handlers EXCEPT
                 ![h].slugCandidate = SuffixedSlug(baseSlug, handlers[h].suffix),
                 ![h].suffix = handlers[h].suffix + 1]

\* POST /api/jobs, from one await to the next: the delay, the turns of the
\* slug loop, the read of the last order, the add
PostJob(h) ==
    /\ handlers[h].kind = "postJob"
    /\ \/ /\ handlers[h].pc = "delay"             \* shouldSimulateError()
          /\ handlers' = [handlers EXCEPT ![h].pc = "done", ![h].status = 500]
          /\ UNCHANGED dbJobs
       \/ /\ handlers[h].pc = "delay"
          /\ IF trim(handlers[h].body.title) = <<>>
             THEN handlers' = [handlers EXCEPT ![h].pc = "done", ![h].status = 400]
             ELSE handlers' = [handlers EXCEPT ![h].pc = "loop",
                      ![h].slugCandidate = slugify(handlers[h].body.title)]
          /\ UNCHANGED dbJobs
       \/ /\ handlers[h].pc = "loop" /\ ~JobsLocked
          /\ SlugLoop(h, Undefined, "last")
          /\ UNCHANGED dbJobs
       \/ /\ handlers[h].pc = "last" /\ ~JobsLocked
          /\ handlers' = [handlers EXCEPT ![h].pc = "add",
                                          ![h].maxOrder = lastOrder(dbJobs)]
          /\ UNCHANGED dbJobs
       \/ /\ handlers[h].pc = "add" /\ ~JobsLocked
          /\ IF CreatedJobId(now) \in DOMAIN dbJobs
             THEN /\ UNCHANGED dbJobs               \* add: the key exists
                  /\ handlers' = [handlers EXCEPT ![h].pc = "done", ![h].status = 500]
             ELSE /\ dbJobs' = [id \in DOMAIN dbJobs \cup {CreatedJobId(now)} |->
                          IF id \in DOMAIN dbJobs THEN dbJobs[id]
                          ELSE [id |-> id, title |-> handlers[h].body.title,
                                slug |-> Slug(handlers[h].slugCandidate),
                                order |-> IF handlers[h].maxOrder # Undefined
                                          THEN handlers[h].maxOrder + 1 ELSE 0]]
                  /\ handlers' = [handlers EXCEPT ![h].pc = "done", ![h].status = 201,
                                                  ![h].written = @ + 1]
    /\ UNCHANGED <<dbAssessments, now>>
    /\ UNCHANGED <<route, jobVars, candVars, builderVars, previewVars, submitVars, mutVars>>

\* the request of an update of job id reaches the handler
ArrivePatchJob(h, id, body) ==
    /\ handlers[h].pc = "free"
    /\ handlers' = [handlers EXCEPT ![h] =
           [FreeHandler EXCEPT !.kind = "patchJob", !.pc = "delay",
                               !.target = id, !.body = body]]
    /\ UNCHANGED <<dbAssessments, dbJobs, now>>
    /\ UNCHANGED <<route, jobVars, candVars, builderVars, previewVars, submitVars, mutVars>>

\* updatedJob = {...existingJob, ...body} with the slug found, written by
\* db.jobs.update(id, updatedJob)
updatedJob(existingJob, body, slug) ==
    [existingJob EXCEPT !.title = IF body.hasTitle THEN body.title ELSE @, !.slug = slug]

\* PATCH /api/jobs/:id, from one await to the next: the delay, the read of
\* the job, the turns of the slug loop when the title changes, the update
PatchJob(h) ==
    /\ handlers[h].kind = "patchJob"
    /\ LET id == handlers[h].target
           body == handlers[h].body
       IN  \/ /\ handlers[h].pc = "delay"         \* shouldSimulateError()
              /\ handlers' = [handlers EXCEPT ![h].pc = "done", ![h].status = 500]
              /\ UNCHANGED dbJobs
           \/ /\ handlers[h].pc = "delay" /\ ~JobsLocked
              /\ IF id \notin DOMAIN dbJobs
                 THEN handlers' = [handlers EXCEPT ![h].pc = "done", ![h].status = 404]
                 ELSE IF body.hasTitle /\ trim(body.title) # <<>>
                         /\ body.title # dbJobs[id].title
                 THEN handlers' = [handlers EXCEPT ![h].pc = "loop",
                          ![h].existing = id, ![h].snapshot = dbJobs[id],
                          ![h].slugCandidate = slugify(body.title)]
                 ELSE handlers' = [handlers EXCEPT ![h].pc = "update",
                          ![h].existing = id, ![h].snapshot = dbJobs[id],
                          ![h].keepSlug = TRUE]
              /\ UNCHANGED dbJobs
           \/ /\ handlers[h].pc = "loop" /\ ~JobsLocked
              /\ SlugLoop(h, id, "update")
              /\ UNCHANGED dbJobs
           \/ /\ handlers[h].pc = "update" /\ ~JobsLocked
              /\ dbJobs' = [dbJobs EXCEPT ![id] =
                     updatedJob(handlers[h].snapshot, body,
                                IF handlers[h].keepSlug THEN handlers[h].snapshot.slug
                                ELSE Slug(handlers[h].slugCandidate))]
              /\ handlers' = [handlers EXCEPT ![h].pc = "done", ![h].status = 200,
                                              ![h].written = @ + 1]
    /\ UNCHANGED <<dbAssessments, now>>
    /\ UNCHANGED <<route, jobVars, candVars, builderVars, previewVars, submitVars, mutVars>>

(***************************************************************************)
(* PATCH /api/jobs/:id/reorder and GET /api/jobs on the jobs store.        *)
(***************************************************************************)
\* the bodies of the reorder requests: {fromOrder, toOrder}, and the body of
\* the call api.reorderJob(id, newOrder), which has no toOrder
ReorderBodies ==
    {reorderJobBody(0, NJobs - 1), reorderJobBody(NJobs - 1, 0), reorderJobBody(1, 0),
     reorderJobBody(1, Undefined)}

\* the request of a reorder of job id reaches the handler (id 0: no such job)
ArriveReorderJob(h, id, body) ==
    /\ handlers[h].pc = "free"
    /\ handlers' = [handlers EXCEPT ![h] =
           [FreeHandler EXCEPT !.kind = "reorderJob", !.pc = "delay",
                               !.target = id, !.body = body]]
    /\ UNCHANGED <<dbAssessments, dbJobs, now>>
    /\ UNCHANGED <<route, jobVars, candVars, builderVars, previewVars, submitVars, mutVars>>

\* the job of `all` a shift loop updates next: the first job after the
\* cursor, in key order, whose order lies in the range of the shift
NextShifted(all, cursor, fromOrder, toOrder) ==
    LET inRange(j) ==
            IF JsLt(fromOrder, toOrder)
            THEN JsLt(fromOrder, all[j].order) /\ JsLe(all[j].order, toOrder)
            ELSE IF JsLt(toOrder, fromOrder)
            THEN JsLe(toOrder, all[j].order) /\ JsLt(all[j].order, fromOrder)
            ELSE FALSE
        left == {j \in DOMAIN all : j > cursor /\ inRange(j)}
    IN  IF left = {} THEN 0 ELSE CHOOSE j \in left : \A o \in left : j <= o

\* PATCH /api/jobs/:id/reorder, from one await to the next: the delay, the
\* read of the job, the start of the transaction with its read of all jobs,
\* each update of the shift loop, the update of the moved job and the commit
ReorderJob(h) ==
    /\ handlers[h].kind = "reorderJob"
    /\ LET id == handlers[h].target
           fromOrder == handlers[h].body.fromOrder
           toOrder == handlers[h].body.toOrder
           all == handlers[h].all
           j == NextShifted(all, handlers[h].cursor, fromOrder, toOrder)
       IN  \/ /\ handlers[h].pc = "delay"         \* shouldSimulateError()
              /\ handlers' = [handlers EXCEPT ![h].pc = "done", ![h].status = 500]
              /\ UNCHANGED dbJobs
           \/ /\ handlers[h].pc = "delay" /\ ~JobsLocked
              /\ IF id \notin DOMAIN dbJobs
                 THEN handlers' = [handlers EXCEPT ![h].pc = "done", ![h].status = 404]
                 ELSE handlers' = [handlers EXCEPT ![h].pc = "begin"]
              /\ UNCHANGED dbJobs
           \/ /\ handlers[h].pc = "begin" /\ ~JobsLocked
              /\ handlers' = [handlers EXCEPT ![h].pc = "transaction", ![h].all = dbJobs]
              /\ UNCHANGED dbJobs
           \/ /\ handlers[h].pc = "transaction" /\ j # 0
              /\ dbJobs' = [dbJobs EXCEPT ![j].order =
                     IF JsLt(fromOrder, toOrder) THEN all[j].order - 1
                     ELSE all[j].order + 1]
              /\ handlers' = [handlers EXCEPT ![h].cursor = j, ![h].written = @ + 1]
           \/ /\ handlers[h].pc = "transaction" /\ j = 0
              /\ dbJobs' = [dbJobs EXCEPT ![id].order = toOrder]
              /\ handlers' = [handlers EXCEPT ![h].pc = "done", ![h].status = 200,
                                              ![h].written = @ + 1]
    /\ UNCHANGED <<dbAssessments, now>>
    /\ UNCHANGED <<route, jobVars, candVars, builderVars, previewVars, submitVars, mutVars>>

\* the request of a list of the jobs reaches the handler
ArriveGetJobs(h) ==
    /\ handlers[h].pc = "free"
    /\ handlers' = [handlers EXCEPT ![h] =
           [FreeHandler EXCEPT !.kind = "getJobs", !.pc = "delay"]]
    /\ UNCHANGED <<dbAssessments, dbJobs, now>>
    /\ UNCHANGED <<route, jobVars, candVars, builderVars, previewVars, submitVars, mutVars>>

\* GET /api/jobs: after the delay, db.jobs.toArray()
GetJobs(h) ==
    /\ handlers[h].kind = "getJobs" /\ handlers[h].pc = "delay"
    /\ ~JobsLocked
    /\ handlers' = [handlers EXCEPT ![h].pc = "done", ![h].status = 200,
                                    ![h].all = dbJobs]
    /\ UNCHANGED <<dbAssessments, dbJobs, now>>
    /\ UNCHANGED <<route, jobVars, candVars, builderVars, previewVars, submitVars, mutVars>>

(***************************************************************************)
(* The write handlers of the candidates, the notes and the responses.      *)
(***************************************************************************)
\* the candidate id handleSubmit sends: 'candidate-preview', no stored candidate
PreviewCandidate == 0

\* what no handler of the Remote Store reads or writes: the pages
pageVars == <<route, jobVars, builderVars, previewVars, mutVars, candCache, candFetch,
              stageFilter, navigations, submitting, submitMessage, submitReq, submits>>

\* Table.add(record): a record of this key is in the table (ConstraintError)
KeyExists(table, id) == \E i \in 1..Len(table) : table[i].id = id

\* the timeline event a handler builds, with its id `timeline-${Date.now()}`
TimelineEvent(id, candidateId, type, newStage) ==
    [id |-> id, candidateId |-> candidateId, type |-> type, newStage |-> newStage]

\* the bodies of the updates of a candidate: a move to a stage, a note
CandidateBodies == {MoveBody(st) : st \in DropStages} \cup {NoteBody}

\* the request of an update of candidate id reaches the handler, which awaits
\* request.json() (id 0: no such candidate)
ArrivePatchCandidate(h, id, updates) ==
    /\ handlers[h].pc = "free"
    /\ handlers' = [handlers EXCEPT ![h] =
           [FreeHandler EXCEPT !.kind = "patchCandidate", !.pc = "json",
                               !.target = id, !.body = updates]]
    /\ UNCHANGED <<dbAssessments, dbJobs, now, cands, timeline, responses, pageVars>>

\* PATCH /api/candidates/:id, from one await to the next: the failure of
\* Math.random() < 0.1, the update of the candidate, the add of the
\* stage_change event; a rejected add is caught and answered 500
PatchCandidate(h) ==
    /\ handlers[h].kind = "patchCandidate"
    /\ LET id == handlers[h].target
           updates == handlers[h].body
           newStage == JsOr(updates.stage, updates.currentStage)
       IN  \/ /\ handlers[h].pc = "json"
              /\ handlers' = [handlers EXCEPT ![h].pc = "done", ![h].status = 500]
              /\ UNCHANGED <<cands, timeline>>
           \/ /\ handlers[h].pc = "json"
              /\ IF id \notin DOMAIN cands
                 THEN /\ handlers' = [handlers EXCEPT ![h].pc = "done", ![h].status = 404]
                      /\ UNCHANGED cands
                 ELSE /\ cands' = UpdateCandidateRow(cands, id, updates)
                      /\ handlers' = [handlers EXCEPT ![h].pc = "updated",
                                                      ![h].written = @ + 1]
              /\ UNCHANGED timeline
           \/ /\ handlers[h].pc = "updated"
              /\ IF newStage \in {NoStage, ""}
                 THEN /\ handlers' = [handlers EXCEPT ![h].pc = "done", ![h].status = 200]
                      /\ UNCHANGED timeline
                 ELSE IF KeyExists(timeline, now)
                 THEN /\ handlers' = [handlers EXCEPT ![h].pc = "done", ![h].status = 500]
                      /\ UNCHANGED timeline
                 ELSE /\ timeline' = Append(timeline,
                              TimelineEvent(now, id, "stage_change", newStage))
                      /\ handlers' = [handlers EXCEPT ![h].pc = "done", ![h].status = 200,
                                                      ![h].written = @ + 1]
              /\ UNCHANGED cands
    /\ UNCHANGED <<dbAssessments, dbJobs, now, responses, pageVars>>

\* the request of a note for candidate id reaches the handler
ArrivePostNote(h, id) ==
    /\ handlers[h].pc = "free"
    /\ handlers' = [handlers EXCEPT ![h] =
           [FreeHandler EXCEPT !.kind = "postNote", !.pc = "delay", !.target = id]]
    /\ UNCHANGED <<dbAssessments, dbJobs, now, cands, timeline, responses, pageVars>>

\* POST /api/candidates/:id/notes, from one await to the next: the delay, the
\* read of the candidate, the add of the note_added event
PostNote(h) ==
    /\ handlers[h].kind = "postNote"
    /\ LET id == handlers[h].target
       IN  \/ /\ handlers[h].pc = "delay"         \* shouldSimulateError()
              /\ handlers' = [handlers EXCEPT ![h].pc = "done", ![h].status = 500]
              /\ UNCHANGED timeline
           \/ /\ handlers[h].pc = "delay"
              /\ handlers' = IF id \notin DOMAIN cands
                             THEN [handlers EXCEPT ![h].pc = "done", ![h].status = 404]
                             ELSE [handlers EXCEPT ![h].pc = "add"]
              /\ UNCHANGED timeline
           \/ /\ handlers[h].pc = "add"
              /\ IF KeyExists(timeline, now)
                 THEN /\ handlers' = [handlers EXCEPT ![h].pc = "done", ![h].status = 500]
                      /\ UNCHANGED timeline
                 ELSE /\ timeline' = Append(timeline,
                              TimelineEvent(now, id, "note_added", NoStage))
                      /\ handlers' = [handlers EXCEPT ![h].pc = "done", ![h].status = 201,
                                                      ![h].written = @ + 1]
    /\ UNCHANGED <<dbAssessments, dbJobs, now, cands, responses, pageVars>>

\* the request of a submission of the preview's candidate reaches the handler
ArriveSubmitResponse(h) ==
    /\ handlers[h].pc = "free"
    /\ handlers' = [handlers EXCEPT ![h] =
           [FreeHandler EXCEPT !.kind = "submitResponse", !.pc = "delay",
                               !.target = PreviewCandidate]]
    /\ UNCHANGED <<dbAssessments, dbJobs, now, cands, timeline, responses, pageVars>>

\* POST /api/assessments/:jobId/submit, from one await to the next: the
\* delay, the lookup of the assessment, the add of the response, the add of
\* the assessment_submitted event; a rejected add is answered 500
SubmitResponse(h) ==
    /\ handlers[h].kind = "submitResponse"
    /\ LET candidateId == handlers[h].target
       IN  \/ /\ handlers[h].pc = "delay"         \* shouldSimulateError()
              /\ handlers' = [handlers EXCEPT ![h].pc = "done", ![h].status = 500]
              /\ UNCHANGED <<responses, timeline>>
           \/ /\ handlers[h].pc = "delay"
              /\ handlers' = IF firstByJob(dbAssessments, BuilderJob) = Undefined
                             THEN [handlers EXCEPT ![h].pc = "done", ![h].status = 404]
                             ELSE [handlers EXCEPT ![h].pc = "response",
                                      ![h].existing = firstByJob(dbAssessments, BuilderJob)]
              /\ UNCHANGED <<responses, timeline>>
           \/ /\ handlers[h].pc = "response"
              /\ IF KeyExists(responses, now)
                 THEN /\ handlers' = [handlers EXCEPT ![h].pc = "done", ![h].status = 500]
                      /\ UNCHANGED responses
                 ELSE /\ responses' = Append(responses,
                              [id |-> now, assessmentId |-> handlers[h].existing,
                               candidateId |-> candidateId, status |-> "submitted"])
                      /\ handlers' = [handlers EXCEPT ![h].pc = "event",
                                                      ![h].written = @ + 1]
              /\ UNCHANGED timeline
           \/ /\ handlers[h].pc = "event"
              /\ IF KeyExists(timeline, now)
                 THEN /\ handlers' = [handlers EXCEPT ![h].pc = "done", ![h].status = 500]
                      /\ UNCHANGED timeline
                 ELSE /\ timeline' = Append(timeline,
                              TimelineEvent(now, candidateId, "assessment_submitted",
                                            NoStage))
                      /\ handlers' = [handlers EXCEPT ![h].pc = "done", ![h].status = 201,
                                                      ![h].written = @ + 1]
              /\ UNCHANGED responses
    /\ UNCHANGED <<dbAssessments, dbJobs, now, cands, pageVars>>

(***************************************************************************)
(* AssessmentPreview: answers, visibility, validation.                     *)
(* A JavaScript string is a sequence of one-character strings.             *)
(***************************************************************************)
\* an answer: undefined, a string, or an array of strings
NoAnswer == [kind |-> "undefined", str |-> <<>>, arr |-> <<>>]
StrAnswer(s) == [kind |-> "string", str |-> s, arr |-> <<>>]
ArrAnswer(a) == [kind |-> "array", str |-> <<>>, arr |-> a]

\* the options of the choice questions, and what is typed into the text and
\* the number inputs
Options == << <<"a">>, <<"1", "a">> >>
TextInputs == {<<>>, <<"a">>, <<"1", "a">>, <<"a", "a">>}
NumericInputs == {<<>>, <<"1">>, <<"5">>, <<"1", "1">>, <<"a">>}
\* the <<min, max>> the builder's two inputs give a numeric question; each is
\* set on its own, so the minimum can exceed the maximum
NumericRanges == {<<2, 10>>, <<10, 2>>}
RuleValues == {<<"a">>, <<"1">>}
\* "matches" stands for any condition other than the three of the switch
Conditions == {"equals", "not-equals", "contains", "matches"}
PreviewTypes == {"single-choice", "multi-choice", "text", "numeric"}

\* String.prototype.includes
StringIncludes(s, value) ==
    \E i \in 0..(Len(s) - Len(value)) : SubSeq(s, i + 1, i + Len(value)) = value

\* Array.prototype.includes
ArrayIncludes(a, value) == \E i \in 1..Len(a) : a[i] = value

\* Number(v) of a string; Undefined stands for NaN
RECURSIVE Number(_)
Number(s) ==
    IF Len(s) = 0 THEN 0
    ELSE LET head == Number(SubSeq(s, 1, Len(s) - 1))
             last == s[Len(s)]
         IN  IF head = Undefined \/ last \notin {"1", "5"} THEN Undefined
             ELSE 10 * head + (IF last = "1" THEN 1 ELSE 5)

\* a visibility that ignores the rule
isVisibleAlways(q, ans) == TRUE

\* a visibility that compares an array answer like a string
isVisibleScalar(q, ans) ==
    LET logic == q.conditionalLogic
        dependsValue == IF logic.dependsOn \in DOMAIN ans THEN ans[logic.dependsOn] ELSE NoAnswer
    IN  IF ~logic.present \/ logic.dependsOn = 0 THEN TRUE
        ELSE IF logic.condition = "equals" THEN dependsValue = StrAnswer(logic.value)
        ELSE IF logic.condition = "not-equals" THEN dependsValue # StrAnswer(logic.value)
        ELSE IF logic.condition = "contains"
        THEN dependsValue.kind = "string" /\ StringIncludes(dependsValue.str, logic.value)
        ELSE TRUE

\* a visibility that takes the answer of a hidden question for absent
isVisibleCascading(q, ans) ==
    LET logic == q.conditionalLogic
        shown == logic.dependsOn \in DOMAIN ans
                 /\ isVisibleScalar(assessment[logic.dependsOn], ans)
        dependsValue == IF shown THEN ans[logic.dependsOn] ELSE NoAnswer
    IN  IF ~logic.present \/ logic.dependsOn = 0 THEN TRUE
        ELSE IF logic.condition = "equals"
        THEN IF dependsValue.kind = "array"
             THEN ArrayIncludes(dependsValue.arr, logic.value)
             ELSE dependsValue = StrAnswer(logic.value)
        ELSE IF logic.condition = "not-equals"
        THEN IF dependsValue.kind = "array"
             THEN ~ArrayIncludes(dependsValue.arr, logic.value)
             ELSE dependsValue # StrAnswer(logic.value)
        ELSE IF logic.condition = "contains"
        THEN IF dependsValue.kind = "array"
             THEN ArrayIncludes(dependsValue.arr, logic.value)
             ELSE dependsValue.kind = "string"
                  /\ StringIncludes(dependsValue.str, logic.value)
        ELSE TRUE

\* isVisible(q) over the answers ans
isVisible(q, ans) ==
    LET logic == q.conditionalLogic
        dependsValue == IF logic.dependsOn \in DOMAIN ans THEN ans[logic.dependsOn] ELSE NoAnswer
    IN  IF ~logic.present \/ logic.dependsOn = 0 THEN TRUE
        ELSE IF logic.condition = "equals"
        THEN IF dependsValue.kind = "array"
             THEN ArrayIncludes(dependsValue.arr, logic.value)
             ELSE dependsValue = StrAnswer(logic.value)
        ELSE IF logic.condition = "not-equals"
        THEN IF dependsValue.kind = "array"
             THEN ~ArrayIncludes(dependsValue.arr, logic.value)
             ELSE dependsValue # StrAnswer(logic.value)
        ELSE IF logic.condition = "contains"
        THEN IF dependsValue.kind = "array"
             THEN ArrayIncludes(dependsValue.arr, logic.value)
             ELSE dependsValue.kind = "string"
                  /\ StringIncludes(dependsValue.str, logic.value)
        ELSE TRUE

\* the memo visibleSections over [assessment, answers]
VisibleQuestions(ans) == {id \in DOMAIN assessment : isVisible(assessment[id], ans)}

\* a validation whose minimum check is not overwritten by the maximum check
QuestionErrorMinWins(q, v) ==
    LET isEmpty == v.kind = "undefined" \/ v = StrAnswer(<<>>)
        num == IF v.kind = "string" THEN Number(v.str) ELSE Undefined
    IN  IF q.type = "numeric" /\ ~isEmpty /\ q.min # Undefined /\ JsLt(num, q.min)
        THEN "Must be >= min"
        ELSE IF q.type = "numeric" /\ ~isEmpty /\ num = Undefined
        THEN "Enter a valid number"
        ELSE IF q.type = "numeric" /\ ~isEmpty /\ q.max # Undefined /\ JsLt(q.max, num)
        THEN "Must be <= max"
        ELSE IF q.required /\ isEmpty THEN "This field is required" ELSE ""

\* the entry validate leaves in nextErrors for question q with answer v
\* ("": none); each later check overwrites the entry of the earlier ones
QuestionError(q, v) ==
    LET isEmpty == v.kind = "undefined" \/ v = StrAnswer(<<>>)
        required ==
            IF q.required
               /\ IF q.type = "multi-choice"
                  THEN v.kind # "array" \/ Len(v.arr) = 0
                  ELSE isEmpty
            THEN "This field is required" ELSE ""
        num == IF v.kind = "string" THEN Number(v.str) ELSE Undefined
        finite == IF num = Undefined THEN "Enter a valid number" ELSE required
        min == IF q.min # Undefined /\ JsLt(num, q.min) THEN "Must be >= min" ELSE finite
        max == IF q.max # Undefined /\ JsLt(q.max, num) THEN "Must be <= max" ELSE min
        numeric == IF q.type = "numeric" /\ ~isEmpty THEN max ELSE required
    IN  IF q.type \in {"text", "long-text"} /\ q.maxLength # 0
           /\ v.kind = "string" /\ Len(v.str) > q.maxLength
        THEN "Max length" ELSE numeric

\* a validation that does not skip the hidden questions
validateAll(ans) == [id \in DOMAIN assessment |-> QuestionError(assessment[id], ans[id])]

\* validate: nextErrors, where a hidden question is skipped
validate(ans) ==
    [id \in DOMAIN assessment |->
        IF isVisible(assessment[id], ans)
        THEN QuestionError(assessment[id], ans[id])
        ELSE ""]

\* handleAnswer(id, value), and the render that follows
handleAnswer(id, value) ==
    /\ answers' = [answers EXCEPT ![id] = value]
    /\ visibleSections' = VisibleQuestions(answers')
    /\ validated' = FALSE
    /\ UNCHANGED <<assessment, errors>>

\* the radio of option o of a single-choice question
answerSingleChoice(id, o) ==
    /\ route.page = "preview"
    /\ id \in visibleSections /\ assessment[id].type = "single-choice"
    /\ handleAnswer(id, StrAnswer(Options[o]))
    /\ UNCHANGED <<route, jobVars, candVars, builderVars, mutVars, submitVars, handlerVars>>

\* the checkbox of option o of a multi-choice question
toggleMultiChoice(id, o) ==
    /\ route.page = "preview"
    /\ id \in visibleSections /\ assessment[id].type = "multi-choice"
    /\ LET currentValues == IF answers[id].kind = "array" THEN answers[id].arr ELSE <<>>
       IN  IF ArrayIncludes(currentValues, Options[o])
           THEN handleAnswer(id, ArrAnswer(SelectSeq(currentValues,
                                                     LAMBDA v : v # Options[o])))
           ELSE handleAnswer(id, ArrAnswer(Append(currentValues, Options[o])))
    /\ UNCHANGED <<route, jobVars, candVars, builderVars, mutVars, submitVars, handlerVars>>

\* the text input (its maxLength attribute bounds what is typed)
answerText(id, text) ==
    /\ route.page = "preview"
    /\ id \in visibleSections /\ assessment[id].type \in {"text", "long-text"}
    /\ assessment[id].maxLength # 0 => Len(text) <= assessment[id].maxLength
    /\ handleAnswer(id, StrAnswer(text))
    /\ UNCHANGED <<route, jobVars, candVars, builderVars, mutVars, submitVars, handlerVars>>

\* the number input
answerNumeric(id, text) ==
    /\ route.page = "preview"
    /\ id \in visibleSections /\ assessment[id].type = "numeric"
    /\ handleAnswer(id, StrAnswer(text))
    /\ UNCHANGED <<route, jobVars, candVars, builderVars, mutVars, submitVars, handlerVars>>

handleValidate ==
    /\ route.page = "preview"
    /\ errors' = validate(answers)
    /\ validated' = TRUE
    /\ UNCHANGED <<assessment, answers, visibleSections>>
    /\ UNCHANGED <<route, jobVars, candVars, builderVars, mutVars, submitVars, handlerVars>>

NoRequest == [state |-> "none", responses |-> <<>>]

\* validate() returns true: nextErrors has no key
NoErrors(errs) == \A id \in DOMAIN errs : errs[id] = ""

\* a submit that sends the request whatever validate returns
handleSubmitUnchecked ==
    /\ route.page = "preview"
    /\ ~submitting
    /\ submits < MaxSubmits
    /\ submits' = submits + 1
    /\ errors' = validate(answers)
    /\ validated' = TRUE
    /\ submitMessage' = "null"
    /\ submitting' = TRUE
    /\ submitReq' = [state |-> "sent", responses |-> answers]
    /\ UNCHANGED <<assessment, answers, visibleSections, responses>>
    /\ UNCHANGED <<route, jobVars, candVars, builderVars, mutVars, handlerVars>>

\* handleSubmit: validate, and when it passes the request of
\* api.submitAssessment(assessment.jobId, {candidateId, responses: answers})
handleSubmit ==
    /\ route.page = "preview"
    /\ ~submitting
    /\ errors' = validate(answers)
    /\ validated' = TRUE
    /\ submitMessage' = "null"
    /\ IF NoErrors(validate(answers))
       THEN /\ submits < MaxSubmits
            /\ submits' = submits + 1
            /\ submitting' = TRUE
            /\ submitReq' = [state |-> "sent", responses |-> answers]
       ELSE UNCHANGED <<submitting, submitReq, submits>>
    /\ UNCHANGED <<assessment, answers, visibleSections, responses>>
    /\ UNCHANGED <<route, jobVars, candVars, builderVars, mutVars, handlerVars>>

\* a handler that stores the response and records no timeline event
SubmitEventsNone(events, body) == events

\* POST /api/assessments/:jobId/submit: the assessment_submitted event
SubmitEvents(events, body) ==
    Append(events, [candidateId |-> body.candidateId, type |-> "assessment_submitted",
                    newStage |-> NoStage])

\* POST /api/assessments/:jobId/submit: the response it stores
SubmittedResponse(jobId, body) ==
    [assessmentId |-> jobId, candidateId |-> body.candidateId,
     responses |-> body.responses, status |-> "submitted"]

\* POST /api/assessments/:jobId/submit
ServerSubmitAssessment ==
    /\ submitReq.state = "sent"
    /\ LET body == [candidateId |-> PreviewCandidate, responses |-> submitReq.responses]
       IN  \/ /\ submitReq' = [submitReq EXCEPT !.state = "error"]  \* shouldSimulateError()
              /\ UNCHANGED <<responses, timeline>>
           \/ /\ ~assessments.present
              /\ submitReq' = [submitReq EXCEPT !.state = "notfound"]
              /\ UNCHANGED <<responses, timeline>>
           \/ /\ assessments.present
              /\ submitReq' = [submitReq EXCEPT !.state = "created"]
              /\ responses' = Append(responses, SubmittedResponse(route.jobId, body))
              /\ timeline' = SubmitEvents(timeline, body)
    /\ UNCHANGED <<submitting, submitMessage, submits, previewVars>>
    /\ UNCHANGED <<route, jobVars, builderVars, mutVars, handlerVars,
                   cands, candCache, candFetch, stageFilter, navigations>>

\* the response reaches handleSubmit: the try / catch / finally
ResolveSubmit ==
    /\ submitReq.state \in {"error", "notfound", "created"}
    /\ submitMessage' = IF submitReq.state = "created"
                        THEN "Saved locally (preview)" ELSE "Failed to save"
    /\ submitting' = FALSE
    /\ submitReq' = NoRequest
    /\ UNCHANGED <<submits, responses, previewVars>>
    /\ UNCHANGED <<route, jobVars, candVars, builderVars, mutVars, handlerVars>>

\* the questions a previewed assessment is made of
NoLogic == [present |-> FALSE, dependsOn |-> 0, condition |-> "equals", value |-> <<>>]
Logics ==
    {NoLogic, [present |-> TRUE, dependsOn |-> 0, condition |-> "equals", value |-> <<"a">>]}
    \cup [present : {TRUE}, dependsOn : {1}, condition : Conditions, value : RuleValues]

Question(type, required, logic) ==
    [type |-> type, required |-> required, conditionalLogic |-> logic,
     min |-> IF type = "numeric" THEN 2 ELSE Undefined,
     max |-> IF type = "numeric" THEN 10 ELSE Undefined,
     maxLength |-> IF type \in {"text", "long-text"} THEN 2 ELSE 0]

\* question q with the range of the builder's min and max inputs
WithRange(q, range) ==
    IF q.type = "numeric" THEN [q EXCEPT !.min = range[1], !.max = range[2]] ELSE q

PreviewAssessments ==
    {[id \in QIds |->
        IF id = 1 THEN WithRange(Question(t1, r1, NoLogic), range)
        ELSE Question(t2, r2, l2)] :
        t1 \in PreviewTypes, r1 \in BOOLEAN, t2 \in PreviewTypes, r2 \in BOOLEAN,
        l2 \in Logics, range \in NumericRanges}

(***************************************************************************)
(* Initial state and specifications.                                       *)
(***************************************************************************)
JobsRoute == [page |-> "jobs", jobId |-> 0, cand |-> 0]

\* the seeded stages, in the order of the board's columns
StageSeq == <<"applied", "screen", "tech", "final", "hired", "rejected">>

\* the assessment the seed stores for a job, and a job the seed gives none
SeededAssessment ==
    [present |-> TRUE, sections |-> <<[id |-> 1, order |-> 0, questions |-> <<>>]>>,
     updatedAt |-> 0]
NoAssessment == [present |-> FALSE, sections |-> <<>>, updatedAt |-> 0]

\* the application opened at one of the routes: its queries are fetching
InitStoresWith(asmt) ==
    /\ jobs = [j \in JobIds |->
                 [order |-> j - 1, status |-> IF j = NJobs THEN "archived" ELSE "active"]]
    /\ cands = [c \in CandIds |->
                  [currentStage |-> StageSeq[((c - 1) % Len(StageSeq)) + 1],
                   jobId |-> CandJob[c]]]
    /\ timeline = <<>>
    /\ assessments = asmt
    /\ dbAssessments = IF asmt.present THEN <<SeededRecord>> ELSE <<>>
    /\ dbJobs = [j \in JobIds |-> SeededJob(j)]
    /\ handlers = [h \in HandlerIds |-> FreeHandler]
    /\ now = 1
    /\ responses = <<>>

InitStores == InitStoresWith(SeededAssessment)

InitPages ==
    /\ jobsCache = [k \in JobKeys |-> NoData]
    /\ filter = InitFilter
    /\ filterChanges = 0
    /\ jobsFetch = [k \in JobKeys |->
                      IF route.page = "jobs" /\ k = InitFilter
                      THEN PendingFetch ELSE IdleFetch]
    /\ candCache = [k \in CandKeys |-> NoData]
    /\ candFetch = [k \in CandKeys |->
                      IF k \in PageKeys(route, "") THEN PendingFetch ELSE IdleFetch]
    /\ stageFilter = ""
    /\ navigations = 0
    /\ asmtCache = [k \in AsmtKeys |-> NoData]
    /\ asmtFetch = [k \in AsmtKeys |->
                      IF route.page = "builder" THEN PendingFetch ELSE IdleFetch]
    /\ localAssessment = [set |-> FALSE, sections |-> <<>>]

\* the preview, before any answer
InitPreviewOf(a) ==
    /\ assessment = a
    /\ answers = [id \in DOMAIN a |-> NoAnswer]
    /\ errors = [id \in DOMAIN a |-> ""]
    /\ visibleSections = {id \in DOMAIN a : isVisible(a[id], [i \in DOMAIN a |-> NoAnswer])}
    /\ validated = FALSE
    /\ submitting = FALSE
    /\ submitMessage = "null"
    /\ submitReq = NoRequest
    /\ submits = 0

NoPreview == InitPreviewOf([id \in QIds |-> Question("text", FALSE, NoLogic)])

InitMuts ==
    /\ muts = [m \in MutIds |-> FreeMut]
    /\ nextMut = 1

vars == <<route, jobVars, candVars, builderVars, previewVars, submitVars, mutVars,
          handlerVars>>

InitJobs == route = JobsRoute /\ InitStores /\ InitPages /\ InitMuts /\ NoPreview

InitCand == route \in CandRoutes /\ InitStores /\ InitPages /\ InitMuts /\ NoPreview

PreviewRoute == [page |-> "preview", jobId |-> BuilderJob, cand |-> 0]

InitPreview ==
    /\ route = PreviewRoute
    /\ InitStores /\ InitPages /\ InitMuts
    /\ \E a \in PreviewAssessments : InitPreviewOf(a)

NextPreview ==
    \/ \E id \in DOMAIN assessment, o \in 1..Len(Options) : answerSingleChoice(id, o)
    \/ \E id \in DOMAIN assessment, o \in 1..Len(Options) : toggleMultiChoice(id, o)
    \/ \E id \in DOMAIN assessment, text \in TextInputs : answerText(id, text)
    \/ \E id \in DOMAIN assessment, text \in NumericInputs : answerNumeric(id, text)
    \/ handleValidate

\* a previewed assessment whose rules form a chain: question 1 is a single
\* choice without a rule, each later question is shown by a rule on the
\* question before it
ChainQIds == 1..NChain

ChainLogics(id) ==
    IF id = 2
    THEN {[present |-> TRUE, dependsOn |-> 1, condition |-> "equals", value |-> Options[1]]}
    ELSE [present : {TRUE}, dependsOn : {id - 1},
          condition : {"equals", "not-equals", "contains"}, value : RuleValues]

ChainAssessments ==
    {[id \in ChainQIds |->
        IF id = 1 THEN Question("single-choice", TRUE, NoLogic)
        ELSE IF id = 2 THEN Question(t2, TRUE, CHOOSE l \in ChainLogics(2) : TRUE)
        ELSE Question(t3, TRUE, l3[id])] :
        t2 \in {"single-choice", "multi-choice", "text"}, t3 \in {"text", "numeric"},
        l3 \in [ChainQIds -> UNION {ChainLogics(id) : id \in ChainQIds \ {1, 2}}]}

InitChain ==
    /\ route = PreviewRoute
    /\ InitStores /\ InitPages /\ InitMuts
    /\ \E a \in ChainAssessments :
           /\ \A id \in ChainQIds \ {1} : a[id].conditionalLogic.dependsOn = id - 1
           /\ InitPreviewOf(a)

\* the previewed assessments of the submit scenarios: question 1 is a
\* single choice, question 2 is without a rule or shown when question 1 is
\* answered with the first option
SubmitLogics ==
    {NoLogic, [present |-> TRUE, dependsOn |-> 1, condition |-> "equals", value |-> Options[1]]}

SubmitAssessments ==
    {[id \in QIds |-> IF id = 1 THEN Question(t1, r1, NoLogic) ELSE Question(t2, r2, l2)] :
        t1 \in {"single-choice"}, r1 \in BOOLEAN,
        t2 \in PreviewTypes, r2 \in BOOLEAN, l2 \in SubmitLogics}

\* the preview of a job with or without a stored assessment
InitSubmit ==
    /\ route = PreviewRoute
    /\ \E asmt \in {SeededAssessment, NoAssessment} : InitStoresWith(asmt)
    /\ InitPages /\ InitMuts
    /\ \E a \in SubmitAssessments : InitPreviewOf(a)

NextSubmit ==
    \/ NextPreview
    \/ handleSubmit
    \/ ServerSubmitAssessment
    \/ ResolveSubmit

\* the job's assessments as the handlers of its saves leave them
InitHandlers ==
    /\ route = BuilderRoute
    /\ \E asmt \in {SeededAssessment, NoAssessment} : InitStoresWith(asmt)
    /\ InitPages /\ InitMuts /\ NoPreview

NextHandlers ==
    \/ Tick
    \/ \E h \in HandlerIds, body \in Drafts : ArrivePutAssessment(h, body)
    \/ \E h \in HandlerIds : PutAssessment(h)
    \/ \E h \in HandlerIds, title \in Titles : ArrivePostJob(h, title)
    \/ \E h \in HandlerIds : PostJob(h)
    \/ \E h \in HandlerIds, id \in JobIds, body \in PatchBodies : ArrivePatchJob(h, id, body)
    \/ \E h \in HandlerIds : PatchJob(h)
    \/ \E h \in HandlerIds, id \in {0} \cup JobIds, body \in ReorderBodies :
           ArriveReorderJob(h, id, body)
    \/ \E h \in HandlerIds : ReorderJob(h)
    \/ \E h \in HandlerIds : ArriveGetJobs(h)
    \/ \E h \in HandlerIds : GetJobs(h)
    \/ \E h \in HandlerIds, id \in {0} \cup CandIds, updates \in CandidateBodies :
           ArrivePatchCandidate(h, id, updates)
    \/ \E h \in HandlerIds : PatchCandidate(h)
    \/ \E h \in HandlerIds, id \in {0} \cup CandIds : ArrivePostNote(h, id)
    \/ \E h \in HandlerIds : PostNote(h)
    \/ \E h \in HandlerIds : ArriveSubmitResponse(h)
    \/ \E h \in HandlerIds : SubmitResponse(h)

NextJobs ==
    \/ \E s \in Searches : setSearch(s)
    \/ \E s \in StatusFilters : setStatusFilter(s)
    \/ \E s \in Sorts : setSortBy(s)
    \/ ClearFilters
    \/ \E k \in JobKeys : FetchJobsServer(k)
    \/ \E k \in JobKeys : FetchJobsSettle(k)
    \/ \E d \in Drags : handleReorder(d[1], d[2])
    \/ \E m \in MutIds : ServerReorderJob(m)
    \/ \E m \in MutIds : ResolveReorder(m)
    \/ \E i \in 0..(NJobs - 1) : handleStatusToggle(i)
    \/ \E m \in MutIds : ServerUpdateJob(m)
    \/ \E m \in MutIds : ResolveUpdateJob(m)

NextCand ==
    \/ \E r \in CandRoutes : Navigate(r)
    \/ \E f \in SelectedStageFilters : setStageFilter(f)
    \/ \E k \in CandKeys : FetchCandidatesServer(k)
    \/ \E k \in CandKeys : FetchCandidatesSettle(k)
    \/ \E c \in CandIds, over \in Overs : handleDragEnd(c, over)
    \/ \E m \in MutIds : ServerUpdateCandidate(m)
    \/ \E m \in MutIds : ResolveUpdateCandidate(m)
    \/ addNoteMutation
    \/ \E m \in MutIds : ServerAddNote(m)
    \/ \E m \in MutIds : ResolveAddNote(m)

\* the Kanban board of the candidates page and of a job's candidates page
BoardRoutes == {r \in CandRoutes : r.page \in {"candidates", "jobCandidates"}}

InitBoard == route \in BoardRoutes /\ InitStores /\ InitPages /\ InitMuts /\ NoPreview

NextBoard ==
    \/ \E f \in SelectedStageFilters : setStageFilter(f)
    \/ \E k \in CandKeys : FetchCandidatesServer(k)
    \/ \E k \in CandKeys : FetchCandidatesSettle(k)
    \/ \E c \in CandIds, over \in Overs : handleDragEnd(c, over)
    \/ \E m \in MutIds : ServerUpdateCandidate(m)
    \/ \E m \in MutIds : ResolveUpdateCandidate(m)

\* the page of one candidate
DetailRoutes == {r \in CandRoutes : r.page = "detail"}

InitDetail == route \in DetailRoutes /\ InitStores /\ InitPages /\ InitMuts /\ NoPreview

NextDetail ==
    \/ \E k \in CandKeys : FetchCandidatesServer(k)
    \/ \E k \in CandKeys : FetchCandidatesSettle(k)
    \/ handleAddNote
    \/ \E s \in Stages : handleStageChange(s)
    \/ \E m \in MutIds : ServerUpdateCandidate(m)
    \/ \E m \in MutIds : ResolveUpdateCandidateDetail(m)

\* the mutations of every page, each page opened on its own
InitMutations ==
    /\ route \in {JobsRoute, BuilderRoute} \cup CandRoutes
    /\ InitStores /\ InitPages /\ InitMuts /\ NoPreview

NextMutations ==
    \/ \E k \in JobKeys : FetchJobsServer(k)
    \/ \E k \in JobKeys : FetchJobsSettle(k)
    \/ \E d \in Drags : handleReorder(d[1], d[2])
    \/ \E m \in MutIds : ServerReorderJob(m)
    \/ \E m \in MutIds : ResolveReorder(m)
    \/ \E i \in 0..(NJobs - 1) : handleStatusToggle(i)
    \/ \E m \in MutIds : ServerUpdateJob(m)
    \/ \E m \in MutIds : ResolveUpdateJob(m)
    \/ \E k \in CandKeys : FetchCandidatesServer(k)
    \/ \E k \in CandKeys : FetchCandidatesSettle(k)
    \/ \E c \in CandIds, over \in Overs : handleDragEnd(c, over)
    \/ \E m \in MutIds : ServerUpdateCandidate(m)
    \/ \E m \in MutIds : ResolveUpdateCandidate(m)
    \/ addNoteMutation
    \/ \E m \in MutIds : ServerAddNote(m)
    \/ \E m \in MutIds : ResolveAddNote(m)
    \/ \E k \in AsmtKeys : FetchAssessmentServer(k)
    \/ \E k \in AsmtKeys : FetchAssessmentSettle(k)
    \/ addSection
    \/ handleSave
    \/ \E m \in MutIds : saveAssessmentFn(m)
    \/ \E m \in MutIds : ResolveSaveAssessment(m)

\* the builder of a job: the draft is edited, nothing is saved
InitDraft == route = BuilderRoute /\ InitStores /\ InitPages /\ InitMuts /\ NoPreview

SectionIds == 1..(MaxSections + 1)
DraftQuestionIds == 1..(MaxDraftQuestions + 1)

NextDraft ==
    \/ \E k \in AsmtKeys : FetchAssessmentServer(k)
    \/ \E k \in AsmtKeys : FetchAssessmentSettle(k)
    \/ addSection
    \/ \E sectionId \in SectionIds : deleteSection(sectionId)
    \/ \E sectionId \in SectionIds : addQuestion(sectionId)
    \/ \E sectionId \in SectionIds, questionId \in DraftQuestionIds :
           onDelete(sectionId, questionId)
    \/ \E activeId, overId \in SectionIds : handleSectionDragEnd(activeId, overId)

\* the builder of a job: the draft is edited and saved
NextSave ==
    \/ \E k \in AsmtKeys : FetchAssessmentServer(k)
    \/ \E k \in AsmtKeys : FetchAssessmentSettle(k)
    \/ addSection
    \/ \E sectionId \in SectionIds : deleteSection(sectionId)
    \/ handleSave
    \/ \E m \in MutIds : saveAssessment(m)
    \/ \E m \in MutIds : ResolveSaveAssessment(m)

SpecJobs == InitJobs /\ [][NextJobs]_vars

SpecCand == InitCand /\ [][NextCand]_vars

SpecMutations == InitMutations /\ [][NextMutations]_vars

SpecPreview == InitPreview /\ [][NextPreview]_vars

SpecSubmit == InitSubmit /\ [][NextSubmit]_vars

SpecHandlers == InitHandlers /\ [][NextHandlers]_vars

SpecBoard == InitBoard /\ [][NextBoard]_vars

SpecChain == InitChain /\ [][NextPreview]_vars

SpecDetail == InitDetail /\ [][NextDetail]_vars

SpecDraft == InitDraft /\ [][NextDraft]_vars

SpecSave == InitDraft /\ [][NextSave]_vars

(***************************************************************************)
(* Properties: the mutation engine on the jobs list.                       *)
(***************************************************************************)
\* the step in which the failure of attempt m is handled
FailureHandled(m) ==
    muts[m].phase = "responded" /\ muts[m].outcome = "error" /\ muts'[m].phase = "done"

\* the step in which the success of attempt m is handled
SuccessHandled(m) ==
    muts[m].phase = "responded" /\ muts[m].outcome = "ok" /\ muts'[m].phase = "done"

\* the step in which the Remote Store completes the write of attempt m
WriteCompleted(m) ==
    muts[m].phase = "sent" /\ muts'[m].phase = "responded" /\ muts'[m].outcome = "ok"

\* C1: when a job reorder or a candidate stage transition that was alone in
\* flight fails, then once the failure is handled the cached collection view
\* it changed is equal to the view cached just before it was issued.
C1_RollbackRestoresSnapshot ==
    [][\A m \in MutIds :
        FailureHandled(m) /\ muts[m].solo =>
            /\ muts[m].kind = "reorder" =>
                   /\ jobsCache'[muts[m].key].loaded = muts[m].ctxLoaded
                   /\ jobsCache'[muts[m].key].data = muts[m].ctxData
            /\ muts[m].kind = "moveCandidate" =>
                   /\ candCache'[AllKey].loaded = muts[m].ctxLoaded
                   /\ candCache'[AllKey].data = muts[m].ctxData]_vars

\* the order values of the store are exactly 0..n-1, each held by one job
OrdersDense(store) ==
    /\ {store[j].order : j \in JobIds} = 0..(NJobs - 1)
    /\ \A a, b \in JobIds : store[a].order = store[b].order => a = b

\* C3: once every job reorder issued by dragging has completed, the order
\* values across all jobs of the Remote Store are exactly 0..n-1 again.
C3_OrdersStayDense ==
    (\A m \in MutIds : muts[m].kind = "reorder" => muts[m].phase = "done")
        => OrdersDense(jobs)

\* the order of each job after the job at order i is removed and reinserted
\* at order j
MovedOrders(store, id, i, j) ==
    [job \in JobIds |->
        IF job = id THEN j
        ELSE IF i < j /\ i < store[job].order /\ store[job].order <= j
        THEN store[job].order - 1
        ELSE IF j < i /\ j <= store[job].order /\ store[job].order < i
        THEN store[job].order + 1
        ELSE store[job].order]

\* C4: over dense orders, a completed reorder of the job at order i to the
\* destination index j gives every job the order of the array move of i to j.
C4_ReorderIsArrayMove ==
    [][\A m \in MutIds :
        muts[m].kind = "reorder" /\ WriteCompleted(m) /\ OrdersDense(jobs) =>
            [job \in JobIds |-> jobs'[job].order]
                = MovedOrders(jobs, muts[m].id, jobs[muts[m].id].order,
                              muts[m].newOrder)]_vars

(***************************************************************************)
(* Properties: the mutation engine on the Kanban board.                    *)
(***************************************************************************)
\* the stage the board rendered from the view under key k shows for candidate
\* c (NoStage when the view has no row for it)
ShownStage(cache, k, c) ==
    IF findIndex(cache[k].data, c) = -1 THEN NoStage
    ELSE IF k.q = "candidates.jobId"
    THEN cache[k].data[findIndex(cache[k].data, c) + 1].stage
    ELSE cache[k].data[findIndex(cache[k].data, c) + 1].currentStage

\* C2: while a stage transition issued from the board is in flight, the cached
\* view the board was rendered from shows the candidate in the destination
\* stage.
C2_BoardViewIsOptimistic ==
    \A m \in MutIds :
        muts[m].kind = "moveCandidate" /\ InFlight(m) /\ muts[m].solo =>
            ShownStage(candCache, muts[m].key, muts[m].id) = muts[m].arg

\* C5: the rollback of a failed stage transition A leaves the optimistic
\* update of a stage transition B on another candidate, still in flight, in
\* the cached view.
C5_RollbackKeepsOtherUpdate ==
    [][\A a, b \in MutIds :
        /\ a # b
        /\ muts[a].kind = "moveCandidate" /\ muts[b].kind = "moveCandidate"
        /\ muts[a].id # muts[b].id
        /\ FailureHandled(a) /\ InFlight(b)
        /\ ShownStage(candCache, AllKey, muts[b].id) = muts[b].arg
        => ShownStage(candCache', AllKey, muts[b].id) = muts[b].arg]_vars

\* C6: every mutation attempt sends one write request and no more, and a
\* failed attempt surfaces exactly one failure notification once handled
\* (none before, and none for a success).
C6_OneRequestOneNotice ==
    \A m \in MutIds :
        /\ muts[m].phase # "free" => muts[m].requests = 1
        /\ muts[m].notices =
               IF muts[m].phase = "done" /\ muts[m].outcome = "error" THEN 1 ELSE 0

\* C7: a successful update of a candidate from stage s to another stage t
\* leaves the candidate with currentStage = t and appends exactly one
\* timeline event, a stage_change of that candidate with newStage = t.
C7_StageUpdateAndOneEvent ==
    [][\A m \in MutIds :
        /\ muts[m].kind = "moveCandidate" /\ WriteCompleted(m)
        /\ cands[muts[m].id].currentStage # muts[m].arg
        => /\ cands'[muts[m].id].currentStage = muts[m].arg
           /\ timeline' = Append(timeline,
                  [candidateId |-> muts[m].id, type |-> "stage_change",
                   newStage |-> muts[m].arg])]_vars

\* candidate 1 was moved from applied to tech
C7_Witness ==
    /\ cands[1].currentStage = "tech"
    /\ timeline = <<[candidateId |-> 1, type |-> "stage_change", newStage |-> "tech"]>>
    /\ \E m \in MutIds : muts[m].kind = "moveCandidate" /\ muts[m].outcome = "ok"

\* C8: when the success of a stage transition issued from the board is
\* handled, every cached view of the candidates collection and of the moved
\* candidate's timeline is marked stale or refetching.
C8_SuccessInvalidatesAllViews ==
    [][\A m \in MutIds :
        muts[m].kind = "moveCandidate" /\ SuccessHandled(m) =>
            \A k \in CollectionKeys \cup {TimelineKey(muts[m].id)} :
                candCache[k].loaded =>
                    candCache'[k].invalidated \/ candFetch'[k].state = "pending"]_vars

(***************************************************************************)
(* Properties: visibility and validation.                                  *)
(***************************************************************************)
\* the rule of the specification: value is a member of a set-valued v, equals
\* a string v, or is a substring of a string v
IsMember(v, value) == v.kind = "array" /\ value \in Range(v.arr)
IsString(v, value) == v.kind = "string" /\ v.str = value
IsSubstring(v, value) ==
    /\ v.kind = "string"
    /\ \E i \in 0..Len(v.str), j \in 1..(Len(v.str) + 1) :
           SubSeq(v.str, 1, i) \o value \o SubSeq(v.str, j, Len(v.str)) = v.str

\* a rule with no dependsOn is malformed, and counts as no rule
HasRule(q) == q.conditionalLogic.present /\ q.conditionalLogic.dependsOn # 0

RuleHolds(logic, v) ==
    CASE logic.condition = "equals" ->
             IF v.kind = "array" THEN IsMember(v, logic.value) ELSE IsString(v, logic.value)
      [] logic.condition = "not-equals" ->
             IF v.kind = "array" THEN ~IsMember(v, logic.value) ELSE ~IsString(v, logic.value)
      [] logic.condition = "contains" ->
             IsMember(v, logic.value) \/ IsSubstring(v, logic.value)
      [] OTHER -> TRUE

ShouldBeVisible(q) ==
    ~HasRule(q) \/ RuleHolds(q.conditionalLogic, answers[q.conditionalLogic.dependsOn])

\* C9: the visibility of every question, computed and rendered, is the rule
\* of the specification for every operator and answer shape; and a change of
\* the answer of dependsOn from a matching to a non-matching value hides the
\* dependent question.
C9_VisibilityIsTheRule ==
    /\ [](\A id \in QIds :
            /\ isVisible(assessment[id], answers) = ShouldBeVisible(assessment[id])
            /\ (id \in visibleSections) = ShouldBeVisible(assessment[id]))
    /\ [][\A id \in QIds :
            LET logic == assessment[id].conditionalLogic
            IN  /\ HasRule(assessment[id])
                /\ RuleHolds(logic, answers[logic.dependsOn])
                /\ ~RuleHolds(logic, answers'[logic.dependsOn])
                => id \in visibleSections /\ id \notin visibleSections']_vars

\* question 2 was shown and answered, then hidden by a change of the answer
\* it depends on
C9_Witness ==
    /\ HasRule(assessment[2])
    /\ assessment[2].conditionalLogic.condition = "contains"
    /\ answers[1].kind = "array"
    /\ answers[2] # NoAnswer
    /\ 2 \notin visibleSections

\* unanswered: an empty or absent selection for multi-choice, an empty or
\* absent value for every other type
Unanswered(q, v) ==
    IF q.type = "multi-choice" THEN v.kind # "array" \/ v.arr = <<>>
    ELSE v.kind = "undefined" \/ (v.kind = "string" /\ v.str = <<>>)

\* the answer breaks a constraint of its type
ConstraintBroken(q, v) ==
    \/ /\ q.type = "numeric" /\ v.kind = "string"
       /\ \/ Number(v.str) = Undefined
          \/ (q.min # Undefined /\ Number(v.str) < q.min)
          \/ (q.max # Undefined /\ Number(v.str) > q.max)
    \/ /\ q.type \in {"text", "long-text"} /\ v.kind = "string"
       /\ q.maxLength # 0 /\ Len(v.str) > q.maxLength

HiddenHasNoError(id) == id \notin visibleSections => errors[id] = ""

RequiredUnansweredHasError(id) ==
    /\ id \in visibleSections /\ assessment[id].required
    /\ Unanswered(assessment[id], answers[id])
    => errors[id] # ""

AnsweredRequired(id) ==
    /\ id \in visibleSections /\ assessment[id].required
    /\ assessment[id].type # "multi-choice"
    /\ ~Unanswered(assessment[id], answers[id])

\* C10 as stated: after a validate action no hidden question carries an
\* error, a visible required unanswered question carries one, and a required
\* question of a non-multi-choice type with a non-empty answer carries none.
C10_AnsweredRequiredHasNoError ==
    validated =>
        \A id \in QIds :
            /\ HiddenHasNoError(id)
            /\ RequiredUnansweredHasError(id)
            /\ AnsweredRequired(id) => errors[id] = ""

\* C10, amended: ... and a required question of a non-multi-choice type with
\* a non-empty answer does not carry the required error; it carries an error
\* only when the answer breaks a constraint of its type.
C10_AnsweredRequiredHasNoRequiredError ==
    validated =>
        \A id \in QIds :
            /\ HiddenHasNoError(id)
            /\ RequiredUnansweredHasError(id)
            /\ AnsweredRequired(id) =>
                   /\ errors[id] # "This field is required"
                   /\ errors[id] # "" => ConstraintBroken(assessment[id], answers[id])

\* after a validation: question 2 is hidden, required and unanswered without
\* an error, question 1 is required, answered and without an error
C10_Witness ==
    /\ validated
    /\ 2 \notin visibleSections /\ assessment[2].required
    /\ answers[2] = NoAnswer /\ errors[2] = ""
    /\ AnsweredRequired(1) /\ errors[1] = ""


\* the answer is a string that Number maps to a finite number
IsFinite(v) == v.kind = "string" /\ Number(v.str) # Undefined

\* C11: after a validate action, a visible numeric question with a minimum
\* and a maximum and a non-empty answer a carries an error iff a is not a
\* finite number, or is below the minimum, or is above the maximum; a
\* non-numeric answer carries the non-numeric error, and an answer failing
\* both range checks carries the maximum-violation message.
C11_NumericErrorIffOutOfRange ==
    validated =>
        \A id \in QIds :
            LET q == assessment[id]
                a == answers[id]
                n == Number(a.str)
            IN  /\ id \in visibleSections /\ q.type = "numeric"
                /\ q.min # Undefined /\ q.max # Undefined
                /\ a.kind = "string" /\ a.str # <<>>
                => /\ errors[id] # "" <=> (~IsFinite(a) \/ n < q.min \/ n > q.max)
                   /\ ~IsFinite(a) => errors[id] = "Enter a valid number"
                   /\ IsFinite(a) /\ n < q.min /\ n > q.max
                          => errors[id] = "Must be <= max"

\* after a validation, the answer 5 of question 1 is below its minimum 10
\* and above its maximum 2, and the slot holds the maximum message
C11_Witness ==
    /\ validated
    /\ assessment[1].type = "numeric" /\ assessment[1].min = 10 /\ assessment[1].max = 2
    /\ answers[1] = StrAnswer(<<"5">>)
    /\ errors[1] = "Must be <= max"


\* the assessment of the scenario: question 1 is a required single choice of
\* Yes (the first option) and No (the second), question 2 is required and
\* shown when question 1 equals Yes
Yes == Options[1]
No == Options[2]
ScenarioAssessment ==
    /\ assessment[1].type = "single-choice" /\ assessment[1].required
    /\ ~HasRule(assessment[1])
    /\ assessment[2].required
    /\ assessment[2].conditionalLogic =
           [present |-> TRUE, dependsOn |-> 1, condition |-> "equals", value |-> Yes]

NoRequestSent == submitReq' = submitReq /\ submitting' = submitting

\* C12: on the scenario's assessment, a submit with no answers fails with an
\* error on question 1 only; a submit with question 1 = No finds question 2
\* hidden, passes validation and sends the answers; a submit with question
\* 1 = Yes and no answer to question 2 finds question 2 visible and fails
\* with an error on question 2 only.
C12_SubmitScenario ==
    [][ScenarioAssessment /\ handleSubmit =>
          /\ (\A id \in QIds : answers[id] = NoAnswer)
             => errors'[1] # "" /\ errors'[2] = "" /\ NoRequestSent
          /\ answers[1] = StrAnswer(No)
             => /\ 2 \notin visibleSections
                /\ NoErrors(errors')
                /\ submitReq' = [state |-> "sent", responses |-> answers]
          /\ answers[1] = StrAnswer(Yes) /\ Unanswered(assessment[2], answers[2])
             => /\ 2 \in visibleSections
                /\ errors'[1] = "" /\ errors'[2] # "" /\ NoRequestSent]_vars

\* the end of the scenario: the submission with question 1 = No was sent and
\* answered, then question 1 was set to Yes and the next submit left an
\* error on question 2 only
C12_Witness ==
    /\ ScenarioAssessment
    /\ submits = 1 /\ submitReq = NoRequest /\ submitMessage = "null"
    /\ answers[1] = StrAnswer(Yes) /\ answers[2] = NoAnswer
    /\ validated /\ errors[1] = "" /\ errors[2] = "This field is required"


\* the inputs of a shown question accept what is entered
AnswerEntryEnabled(id) ==
    LET q == assessment[id]
    IN  /\ q.type = "single-choice"
           => \A o \in 1..Len(Options) : ENABLED answerSingleChoice(id, o)
        /\ q.type = "multi-choice"
           => \A o \in 1..Len(Options) : ENABLED toggleMultiChoice(id, o)
        /\ q.type = "numeric" => \A t \in NumericInputs : ENABLED answerNumeric(id, t)
        /\ q.type = "text"
           => \A t \in TextInputs : Len(t) <= q.maxLength => ENABLED answerText(id, t)

\* a step that records an answer leaves the errors alone
AnswerRecorded(id) == answers'[id] # answers[id] => errors' = errors

\* C13: whatever errors are present, an answer to a shown question can be
\* entered and entering it updates the answer set; a submit hands the answer
\* set to the store only if validation of the current answers produces no
\* error, and when validation produces an error no request is sent.
C13_ValidationGatesSubmitOnly ==
    /\ [](\A id \in visibleSections : AnswerEntryEnabled(id))
    /\ [][\A id \in QIds : AnswerRecorded(id)]_vars
    /\ [][submitReq'.state = "sent" /\ submitReq.state # "sent"
            => NoErrors(validate(answers)) /\ submitReq'.responses = answers]_vars
    /\ [][handleSubmit /\ ~NoErrors(validate(answers)) => NoRequestSent]_vars

\* question 1 was answered while its required error was shown, and no
\* request was ever sent
C13_Witness ==
    /\ errors[1] = "This field is required" /\ answers[1] = StrAnswer(Yes)
    /\ ~validated
    /\ submits = 0 /\ submitReq = NoRequest


\* the responses and the assessment_submitted events of candidate c
ResponsesOf(store, c) == SelectSeq(store, LAMBDA r : r.candidateId = c)
SubmittedEvents(events, c) ==
    SelectSeq(events, LAMBDA e : e.candidateId = c /\ e.type = "assessment_submitted")

C14_WitnessNotFound ==
    /\ ~assessments.present /\ submitReq.state = "notfound"
    /\ responses = <<>> /\ timeline = <<>>


\* the Remote Store was asked to save and answered with a failure
SaveFailedAtStore(m) == muts[m].outcome = "error" /\ muts[m].requests >= 1

C15_FailedSaveLeavesDraft ==
    [][\A m \in MutIds :
        muts[m].kind = "saveAssessment" /\ FailureHandled(m)
        => /\ localAssessment' = localAssessment
           /\ muts'[m].notices = muts[m].notices + 1]_vars


\* the stored assessments of the job
AssessmentsOf(table, jobId) == SelectSeq(table, LAMBDA a : a.jobId = jobId)

\* a save served alone, from its lookup to its write, at time t
Saved(table, body, t) ==
    IF firstByJob(table, BuilderJob) # Undefined
    THEN updatedAssessment(table, firstByJob(table, BuilderJob), body)
    ELSE Append(table, newAssessment(t, BuilderJob, body))

\* the stored title, description and sections
Content(table) ==
    [i \in 1..Len(table) |->
        [title |-> table[i].title, description |-> table[i].description,
         sections |-> table[i].sections]]

AtMostOneAssessment == Len(AssessmentsOf(dbAssessments, BuilderJob)) <= 1

\* handler h stored its draft and no other handler has written
SavedOnce(h) ==
    /\ handlers[h].kind = "putAssessment" /\ handlers[h].status \in {200, 201}
    /\ \A g \in HandlerIds \ {h} : handlers[g].status \notin {200, 201}

SameDraftTwiceIsOnce ==
    \A h \in HandlerIds :
        SavedOnce(h) =>
            Content(Saved(dbAssessments, handlers[h].body, now)) = Content(dbAssessments)

\* C16: after any saves of a job's assessment, two in flight at once
\* included, the store holds at most one assessment of the job, and saving
\* a draft twice stores the title, description and sections that saving it
\* once stores.
C16_SaveIsCreateOrReplace == AtMostOneAssessment /\ SameDraftTwiceIsOnce


\* the Remote Store has processed attempt m and written its stage
Written(m) ==
    /\ muts[m].kind = "moveCandidate"
    /\ muts[m].phase \in {"responded", "done"} /\ muts[m].outcome = "ok"

\* C17: once two stage transitions of the same candidate, issued one after
\* the other, have both been written by the Remote Store, the candidate's
\* stored stage is the stage of the one issued last.
C17_LastIssuedWins ==
    \A a, b \in MutIds :
        a < b /\ Written(a) /\ Written(b) /\ muts[a].id = muts[b].id
        => cands[muts[b].id].currentStage = muts[b].arg


\* C18: when the failure of a job reorder is handled, the rollback writes
\* the captured snapshot to the cache entry it was captured from, whatever
\* the search, status filter, sort or page has become, and leaves the
\* entries under every other key as they are.
C18_RollbackOnlyToCapturedKey ==
    [][\A m \in MutIds :
        muts[m].kind = "reorder" /\ FailureHandled(m) /\ muts[m].ctxLoaded
        => /\ jobsCache'[muts[m].key].data = muts[m].ctxData
           /\ \A k \in JobKeys \ {muts[m].key} :
                  /\ jobsCache'[k].loaded = jobsCache[k].loaded
                  /\ jobsCache'[k].data = jobsCache[k].data]_vars


\* C19: after any creates and updates of jobs, two creates of the same
\* title in flight at once included, no two jobs of the store have the same
\* slug (a job without a slug field has the slug undefined).
C19_SlugsUnique ==
    \A i, j \in DOMAIN dbJobs : i # j => dbJobs[i].slug # dbJobs[j].slug

\* C19 for the jobs that have a slug: no two of them have the same
C19_DefinedSlugsUnique ==
    \A i, j \in DOMAIN dbJobs :
        i # j /\ dbJobs[i].slug.defined /\ dbJobs[j].slug.defined
        => dbJobs[i].slug # dbJobs[j].slug

\* no create request has stored a job
C19_NoJobCreated == DOMAIN dbJobs = JobIds


\* the step in which GET /api/candidates answers the query under key k
CandidatesListed(k) ==
    /\ k \notin TimelineKeys
    /\ candFetch[k].state = "pending" /\ candFetch'[k].state = "ready"

\* C20: the list of candidates asked for with a job id holds candidates of
\* that job only (and with a stage, of that stage only), so that its total
\* counts no candidate of another job.
C20_ListHonoursJobId ==
    [][\A k \in CandKeys :
        CandidatesListed(k) /\ k.q = "candidates.jobId"
        => \A i \in 1..Len(candFetch'[k].data) :
               LET row == candFetch'[k].data[i]
               IN  /\ cands[row.id].jobId = k.jobId
                   /\ k.stage # "" => row.currentStage = k.stage]_vars



\* handler g is inside the transaction of its reorder
InTransaction(g) == handlers[g].kind = "reorderJob" /\ handlers[g].pc = "transaction"

\* the jobs as the last committed transaction left them: while a reorder is
\* inside its transaction, the jobs it read when it began
CommittedJobs ==
    IF \E g \in HandlerIds : InTransaction(g)
    THEN handlers[CHOOSE g \in HandlerIds : InTransaction(g)].all
    ELSE dbJobs

\* the step in which handler h reads the jobs: the list of GET /api/jobs, or
\* the read that opens the transaction of a reorder
JobsRead(h) == handlers'[h].all # handlers[h].all

\* the step in which the transaction of handler g commits
Commits(g) == InTransaction(g) /\ handlers'[g].pc = "done"

\* the whole reorder applied to the jobs it read: the shifts of the range and
\* the new order of the moved job
WholeReorder(all, id, fromOrder, toOrder) ==
    [j \in DOMAIN all |->
        IF j = id THEN [all[j] EXCEPT !.order = toOrder]
        ELSE IF JsLt(fromOrder, toOrder) /\ JsLt(fromOrder, all[j].order)
                /\ JsLe(all[j].order, toOrder)
        THEN [all[j] EXCEPT !.order = all[j].order - 1]
        ELSE IF JsLt(toOrder, fromOrder) /\ JsLe(toOrder, all[j].order)
                /\ JsLt(all[j].order, fromOrder)
        THEN [all[j] EXCEPT !.order = all[j].order + 1]
        ELSE all[j]]

\* C21: a reorder is applied to the jobs store as one unit: every read of
\* the jobs, by a list request or by another reorder, returns the jobs as
\* the last committed transaction left them, never the writes of a reorder
\* that has not committed; and when a reorder commits, the store is the jobs
\* it read with all its shifts and the moved job's new order, and no write
\* of another request in between.
C21_ReorderIsAtomic ==
    /\ [][\A h \in HandlerIds : JobsRead(h) => handlers'[h].all = CommittedJobs]_vars
    /\ [][\A g \in HandlerIds :
            Commits(g) =>
                dbJobs' = WholeReorder(handlers[g].all, handlers[g].target,
                                       handlers[g].body.fromOrder,
                                       handlers[g].body.toOrder)]_vars

\* the reorder of job 1 from order 0 to the last order has committed its two
\* shifts and the move, and a list request read the three new orders
C21_Witness ==
    /\ \E g \in HandlerIds :
           /\ handlers[g].kind = "reorderJob" /\ handlers[g].status = 200
           /\ handlers[g].target = 1 /\ handlers[g].body = reorderJobBody(0, NJobs - 1)
    /\ \E h \in HandlerIds :
           /\ handlers[h].kind = "getJobs" /\ handlers[h].status = 200
           /\ [j \in JobIds |-> handlers[h].all[j].order]
                  = [j \in JobIds |-> IF j = 1 THEN NJobs - 1 ELSE j - 2]

\* a list request waits while a reorder has applied one of its two shifts
C21_WitnessWaiting ==
    \E g, h \in HandlerIds :
        /\ InTransaction(g) /\ handlers[g].cursor = 2
        /\ handlers[g].body = reorderJobBody(0, NJobs - 1)
        /\ dbJobs[2].order = 0 /\ dbJobs[3].order = 2
        /\ handlers[h].kind = "getJobs" /\ handlers[h].pc = "delay"



\* the stage container a drop over `over` lands in
DestinationOf(over) ==
    IF over.type = "container" THEN over.stage
    ELSE IF over.type = "item" THEN ContainerOf(over.cand)
    ELSE NoStage

\* C22: a drag of a card that ends inside the stage container it started
\* from, over the column or over a card of it, changes nothing: no attempt
\* is issued and no request sent, the cached views, the stored stage and the
\* timeline are as before.
C22_SameContainerDropChangesNothing ==
    [][\A c \in CandIds, over \in Overs :
        handleDragEnd(c, over) /\ DestinationOf(over) = ContainerOf(c)
        => UNCHANGED <<muts, nextMut, candCache, candFetch, cands, timeline>>]_vars

\* the board shows both candidates in one column after a move, and the card
\* of candidate 1 can be dropped over the card of candidate 2
C22_Witness ==
    /\ BoardShown
    /\ ContainerOf(1) \in Stages /\ ContainerOf(1) = ContainerOf(2)
    /\ nextMut <= MaxMuts
    /\ ENABLED handleDragEnd(1, [type |-> "item", stage |-> "", cand |-> 2])

\* the step issues one stage transition of candidate c to stage dest, and
\* nothing else
IssuedMove(c, dest) ==
    /\ nextMut' = nextMut + 1
    /\ muts'[nextMut].kind = "moveCandidate" /\ muts'[nextMut].phase = "sent"
    /\ muts'[nextMut].id = c /\ muts'[nextMut].requests = 1
    /\ JsOr(muts'[nextMut].patch.stage, muts'[nextMut].patch.currentStage) = dest
    /\ \A m \in MutIds \ {nextMut} : muts'[m].kind = muts[m].kind

\* a card of the board is dropped over a column or a card of another column
DropElsewhere(c, over) ==
    /\ BoardShown
    /\ over.type # "none"
    /\ ContainerOf(c) \in Stages
    /\ (over.type = "item" => ContainerOf(over.cand) \in Stages)
    /\ DestinationOf(over) # ContainerOf(c)

\* C23: a drop over a column has that column for its destination, a drop
\* over a card the column that renders the card; the destination is one of
\* the six stages, and when it is not the column the drag started from, the
\* drop issues exactly one update of the dragged candidate, to the
\* destination stage.
C23_DropResolvesToContainer ==
    /\ [](\A c \in CandIds, over \in Overs :
             DropElsewhere(c, over) /\ nextMut <= MaxMuts
             => ENABLED (handleDragEnd(c, over) /\ nextMut' = nextMut + 1))
    /\ [][\A c \in CandIds, over \in Overs :
            handleDragEnd(c, over) /\ over.type # "none"
            => /\ DestinationOf(over) \in Stages
               /\ DestinationOf(over) # ContainerOf(c)
                  => IssuedMove(c, DestinationOf(over))]_vars

\* the card of candidate 2 was dropped over the card of candidate 1, in the
\* column applied; the update to applied is in flight
C23_Witness ==
    /\ BoardShown /\ ContainerOf(1) = "applied"
    /\ \E m \in MutIds :
           /\ muts[m].kind = "moveCandidate" /\ muts[m].phase = "sent"
           /\ muts[m].id = 2 /\ muts[m].arg = "applied" /\ muts[m].requests = 1



\* question c is shown by a rule on question b, which is shown by a rule on
\* question a
RuleChain(a, b, c) ==
    /\ HasRule(assessment[c]) /\ assessment[c].conditionalLogic.dependsOn = b
    /\ HasRule(assessment[b]) /\ assessment[b].conditionalLogic.dependsOn = a

\* C24: in a chain of rules (Q3 on Q2, Q2 on Q1) the visibility of Q3 is
\* the rule applied to the stored answer of Q2, whether Q2 is shown or
\* hidden; and a change of the answer of Q1 that hides Q2 leaves the answer
\* of Q2 as it was entered.
C24_HiddenAnswerStillDecides ==
    /\ [](\A a, b, c \in DOMAIN assessment :
             RuleChain(a, b, c) =>
                 (c \in visibleSections)
                     = RuleHolds(assessment[c].conditionalLogic, answers[b]))
    /\ [][\A a, b, c \in DOMAIN assessment :
            /\ RuleChain(a, b, c) /\ answers'[a] # answers[a]
            /\ b \in visibleSections /\ b \notin visibleSections'
            => answers'[b] = answers[b]]_vars

\* question 2 was answered while shown and is hidden now; question 3, whose
\* rule holds of nothing but that answer, is still shown
C24_Witness ==
    /\ RuleChain(1, 2, 3)
    /\ assessment[3].conditionalLogic.condition = "equals"
    /\ 2 \notin visibleSections
    /\ answers[2] = StrAnswer(assessment[3].conditionalLogic.value)
    /\ 3 \in visibleSections



\* the step in which PATCH /api/candidates/:id completes the write of
\* attempt m
CandidateWritten(m) == muts[m].kind \in CandidateUpdates /\ WriteCompleted(m)

\* the stage_change events of candidate c
StageChanges(events, c) ==
    SelectSeq(events, LAMBDA e : e.candidateId = c /\ e.type = "stage_change")

\* C25: a completed update of a candidate whose fields include no stage (a
\* note only) leaves the stored stage of the candidate as it was and appends
\* no stage_change event.
C25_UpdateWithoutStageKeepsStage ==
    [][\A m \in MutIds :
        /\ CandidateWritten(m)
        /\ muts[m].patch.stage = NoStage /\ muts[m].patch.currentStage = NoStage
        => /\ cands'[muts[m].id].currentStage = cands[muts[m].id].currentStage
           /\ StageChanges(timeline', muts[m].id) = StageChanges(timeline, muts[m].id)]_vars

\* C25, the half the code satisfies: such an update appends no event
C25_UpdateWithoutStageAddsNoEvent ==
    [][\A m \in MutIds :
        /\ CandidateWritten(m)
        /\ muts[m].patch.stage = NoStage /\ muts[m].patch.currentStage = NoStage
        => timeline' = timeline]_vars



\* C30: a completed update of a candidate whose stage is the stage the
\* candidate already has appends no timeline event; a stage_change event is
\* appended only when the stored stage changes value.
C30_EventOnlyOnStageChange ==
    [][\A m \in MutIds :
        /\ CandidateWritten(m)
        /\ JsOr(muts[m].patch.stage, muts[m].patch.currentStage)
               = cands[muts[m].id].currentStage
        => timeline' = timeline]_vars



\* handler h has answered with an error status
AnsweredError(h) == handlers[h].pc = "done" /\ handlers[h].status >= 400

\* C26: a write request of the Remote Store that is answered with an error
\* (the simulated server error, not found, a validation error or a database
\* error) has created and modified no record of the store.
C26_ErrorMeansNothingWritten ==
    \A h \in HandlerIds : AnsweredError(h) => handlers[h].written = 0

\* C26 for the requests on the jobs and the assessments: those answered
\* with an error have written nothing
C26_JobWritesAllOrNothing ==
    \A h \in HandlerIds :
        AnsweredError(h) /\ handlers[h].kind \notin {"patchCandidate", "submitResponse"}
        => handlers[h].written = 0



\* no two elements of s have the same order value
OrdersUnique(s) == \A i, j \in 1..Len(s) : i # j => s[i].order # s[j].order

C27_SectionOrdersUnique == OrdersUnique(localAssessment.sections)

\* C27, the questions alone
C27_QuestionOrdersUnique ==
    \A i \in 1..Len(localAssessment.sections) :
        OrdersUnique(localAssessment.sections[i].questions)



\* the save of attempt m has succeeded and its callbacks have run
SaveSucceeded(m) ==
    muts[m].kind = "saveAssessment" /\ muts[m].phase = "done" /\ muts[m].outcome = "ok"

\* the refreshed server value of key k reaches the builder in this step
RefreshApplied(k) == asmtFetch[k].state = "ready" /\ asmtFetch'[k].state = "idle"

Quiescent ==
    /\ \A m \in MutIds : ~InFlight(m)
    /\ \A k \in JobKeys : jobsFetch[k].state = "idle"
    /\ \A k \in CandKeys : candFetch[k].state = "idle"

\* the cached list of jobs of key k is the Remote Store's
JobsCacheIsStore(k) == jobsCache[k].data \in ListJobs(jobs, k)

\* the cached collection of candidates (or the timeline) of key k is the
\* Remote Store's
CandCacheIsStore(k) ==
    candCache[k].data = IF k \in TimelineKeys THEN ListTimeline(timeline, k.cand)
                        ELSE ListCandidates(cands, k.stage)

\* C29: once every mutation has settled and every refetch has completed, each
\* cached collection that is not marked stale equals the corresponding
\* collection of the Remote Store.
C29_CacheConverges ==
    Quiescent =>
        /\ \A k \in JobKeys :
               jobsCache[k].loaded /\ ~jobsCache[k].invalidated => JobsCacheIsStore(k)
        /\ \A k \in CandKeys :
               candCache[k].loaded /\ ~candCache[k].invalidated => CandCacheIsStore(k)

\* C29 for the collections the page shows
C29_ShownCacheConverges ==
    Quiescent =>
        /\ \A k \in ActiveJobKeys : jobsCache[k].loaded => JobsCacheIsStore(k)
        /\ \A k \in ActiveCandKeys : candCache[k].loaded => CandCacheIsStore(k)

====
